---------------------------- MODULE Spec2Model ----------------------------
(***************************************************************************)
(* State-machine model of mcp-context-proxy:                               *)
(*   - RetryTracker (sliding-window call tracker, escalation multiplier)   *)
(*   - Router (routing of tool calls to the upstream connections)          *)
(*   - detectStrategy and Compressor (LLM compression of results)          *)
(* Time is Date.now() in milliseconds.  A Map is a function whose DOMAIN   *)
(* is the set of its keys.                                                 *)
(***************************************************************************)
EXTENDS Integers, Sequences, FiniteSets, TLC

VARIABLES
    now,            \* Date.now(), milliseconds
    calls,          \* RetryTracker.calls : Map<string, number[]>
    lastCall,       \* the most recent RetryTracker operation and what it returned
    history,        \* every recordCall since construction / reset: <<[tool, ts]>>
    floor,          \* per tool: the highest cutoff any prune has applied to it
    callsNC,        \* a second RetryTracker receiving the same operations except cleanup
    cleanupWindows, \* the maxWindowSeconds of every cleanup since construction / reset
    masker,         \* the Masker handed to the Router's constructor
    inflight,       \* per caller: its Router.callTool invocation and what it observed
    reads,          \* per caller: its Router.readResource / getPrompt invocation
    detected,       \* a detectStrategy call: its content and the strategy returned
    compressionConfig, \* Compressor.config : CompressionConfig
    job,            \* the Compressor method in progress and what its caller observed
    toolCall,       \* the tool call whose result is being compressed, and its escalation
    prompted,       \* a getCompressionPrompt call: its arguments and the prompt returned
    regexes,        \* the RegExp objects alive, by identity: source, flags, lastIndex
    clones,         \* the patterns clonePattern returned, each with the pattern it was given
    libCall,        \* the most recent pattern-library operation and what it returned
    masking,        \* a Masker.maskToolArgs call: its arguments, the active types and what it returned
    detection,      \* an LLMDetector.detectAndMask call: its text, the model's outcome and what the caller observed
    resolverConfig, \* the configuration the ToolConfigResolver was constructed with
    resolution,     \* the most recent policy resolution and the policy it returned
    swap,           \* the Router.setMasker call made, if any, and how it ended
    cached          \* what a cache of completed compressions would hold, and its answer to the compress in progress

trackerVars == <<now, calls, lastCall, history, floor, callsNC, cleanupWindows>>

routerVars == <<masker, inflight>>

readVars == <<reads>>

strategyVars == <<detected>>

compressorVars == <<compressionConfig, job>>

pipelineVars == <<toolCall>>

promptVars == <<prompted>>

patternVars == <<regexes, clones, libCall>>

maskingVars == <<masking>>

detectorVars == <<detection>>

resolverVars == <<resolverConfig, resolution>>

swapVars == <<swap>>

cacheVars == <<cached>>

vars == <<trackerVars, routerVars, readVars, strategyVars, compressorVars, pipelineVars, promptVars, patternVars, maskingVars, detectorVars, resolverVars, swapVars, cacheVars>>

-----------------------------------------------------------------------------
(* Bounds *)

MaxCalls == 3
MaxClockSeconds == 2
MaxInflight == 2
MaxTextTokens == 3
MaxParts == 3

(* Inputs *)

Tools == {"tool_a", "tool_b"}
AdvanceSteps == {1000}
WindowSeconds == {1, 2}
TokenMultipliers == {2, 3}
CleanupWindowSeconds == {1, 2}

RetryEscalationConfig ==
    [enabled : {TRUE}, windowSeconds : WindowSeconds, tokenMultiplier : TokenMultipliers]
    \cup [enabled : {FALSE}, windowSeconds : {1}, tokenMultiplier : {2}]

-----------------------------------------------------------------------------
(* Map helpers *)

EmptyMap == [k \in {} |-> <<>>]

MapGetOrEmpty(m, k) == IF k \in DOMAIN m THEN m[k] ELSE <<>>

\* a set that writes the value under every key
MapSetEvery(m, k, v) == [x \in (DOMAIN m) \cup {k} |-> v]

MapSet(m, k, v) == [x \in (DOMAIN m) \cup {k} |-> IF x = k THEN v ELSE m[x]]

MapDelete(m, k) == [x \in (DOMAIN m) \ {k} |-> m[x]]

Max(a, b) == IF a >= b THEN a ELSE b

SetMax(S) == CHOOSE x \in S : \A y \in S : y <= x

-----------------------------------------------------------------------------
(* RetryTracker *)

MsPerSecond == 1000

\* recordCall with "existing" dropped: this.calls.set(toolName, [now])
pushOverwrite(existing, ts) == <<ts>>

\* existing.push(now)
push(existing, ts) == Append(existing, ts)

\* the window filter with the bound made inclusive
recentCallsInclusive(timestamps, cutoff) == SelectSeq(timestamps, LAMBDA ts : ts >= cutoff)

\* the window filter comparing whole seconds
recentCallsWholeSeconds(timestamps, cutoff) ==
    SelectSeq(timestamps, LAMBDA ts : ts \div MsPerSecond > cutoff \div MsPerSecond)

\* timestamps.filter((ts) => ts > cutoff) in getEscalationMultiplier
recentCalls(timestamps, cutoff) == SelectSeq(timestamps, LAMBDA ts : ts > cutoff)

\* cleanup's cutoff with the seconds-to-milliseconds conversion forgotten
cleanupCutoffNoMs(t, maxWindowSeconds) == t - maxWindowSeconds

\* now - maxWindowSeconds * 1000 in cleanup
cleanupCutoff(t, maxWindowSeconds) == t - maxWindowSeconds * MsPerSecond

\* cleanup's filter with the bound made inclusive
recentInclusive(timestamps, cutoff) == SelectSeq(timestamps, LAMBDA ts : ts >= cutoff)

\* timestamps.filter((ts) => ts > cutoff) in cleanup
recent(timestamps, cutoff) == SelectSeq(timestamps, LAMBDA ts : ts > cutoff)

RECURSIVE Pow(_, _)
Pow(b, e) == IF e = 0 THEN 1 ELSE b * Pow(b, e - 1)

\* exponential escalation: tokenMultiplier ^ (callCount - 1)
escalationExponential(config, callCount) == Pow(config.tokenMultiplier, callCount - 1)

\* 1 + (config.tokenMultiplier - 1) * (callCount - 1)
escalation(config, callCount) == 1 + (config.tokenMultiplier - 1) * (callCount - 1)

\* the value getEscalationMultiplier returns for a tracker map m (enabled policy)
multiplierOf(m, toolName, config, t) ==
    LET cutoff == t - config.windowSeconds * MsPerSecond
        callCount == Len(recentCalls(MapGetOrEmpty(m, toolName), cutoff))
    IN  IF callCount <= 1 THEN 1 ELSE escalation(config, callCount)

\* the lazy prune deleting the tool's entry whenever a timestamp expired
prunedOfDeleting(m, toolName, config, t) ==
    LET cutoff == t - config.windowSeconds * MsPerSecond
        timestamps == MapGetOrEmpty(m, toolName)
        rc == recentCalls(timestamps, cutoff)
    IN  IF Len(rc) # Len(timestamps) THEN MapDelete(m, toolName) ELSE m

\* the lazy prune storing the filtered array even when it is empty
prunedOfKeepingEmpty(m, toolName, config, t) ==
    LET cutoff == t - config.windowSeconds * MsPerSecond
        timestamps == MapGetOrEmpty(m, toolName)
        rc == recentCalls(timestamps, cutoff)
    IN  IF Len(rc) # Len(timestamps) THEN MapSet(m, toolName, rc) ELSE m

\* the map getEscalationMultiplier leaves behind for a tracker map m (enabled policy)
prunedOf(m, toolName, config, t) ==
    LET cutoff == t - config.windowSeconds * MsPerSecond
        timestamps == MapGetOrEmpty(m, toolName)
        rc == recentCalls(timestamps, cutoff)
    IN  IF Len(rc) # Len(timestamps)
        THEN IF Len(rc) = 0 THEN MapDelete(m, toolName) ELSE MapSet(m, toolName, rc)
        ELSE m

\* the map cleanup leaves behind for a tracker map m
cleanedOf(m, cutoff) ==
    LET keep == {k \in DOMAIN m : Len(recent(m[k], cutoff)) # 0}
    IN  [k \in keep |-> recent(m[k], cutoff)]

\* a floor below every cutoff the inputs can produce: nothing pruned yet
NoFloor == 0 - SetMax(WindowSeconds \cup CleanupWindowSeconds) * MsPerSecond

\* toolCount, totalCalls: what getStats returned; after reset, what getStats
\* would have returned just before it
NoCall == [op |-> "none", tool |-> "", enabled |-> FALSE, windowSeconds |-> 0,
           tokenMultiplier |-> 0, cutoff |-> 0,
           value |-> 0, valueNC |-> 0, toolCount |-> 0, totalCalls |-> 0]

RECURSIVE totalOver(_, _)
totalOver(m, keys) ==
    IF keys = {} THEN 0
    ELSE LET k == CHOOSE x \in keys : TRUE
         IN  Len(m[k]) + totalOver(m, keys \ {k})

\* getStats(): { toolCount: this.calls.size, totalCalls }
getStats(m) == [toolCount |-> Cardinality(DOMAIN m), totalCalls |-> totalOver(m, DOMAIN m)]

\* the body of recordCall
recordCallBody(toolName) ==
    /\ calls' = MapSet(calls, toolName, push(MapGetOrEmpty(calls, toolName), now))
    /\ callsNC' = MapSet(callsNC, toolName, push(MapGetOrEmpty(callsNC, toolName), now))
    /\ history' = Append(history, [tool |-> toolName, ts |-> now])
    /\ lastCall' = [NoCall EXCEPT !.op = "recordCall", !.tool = toolName]
    /\ UNCHANGED <<now, floor, cleanupWindows>>

recordCall(toolName) ==
    /\ Len(history) < MaxCalls
    /\ recordCallBody(toolName)

\* getEscalationMultiplier without its check of config.enabled
getEscalationMultiplierAlways(toolName, config) ==
    LET cutoff == now - config.windowSeconds * MsPerSecond
    IN  /\ calls' = prunedOf(calls, toolName, config, now)
        /\ callsNC' = prunedOf(callsNC, toolName, config, now)
        /\ floor' = [floor EXCEPT ![toolName] = Max(@, cutoff)]
        /\ lastCall' = [op |-> "getEscalationMultiplier", tool |-> toolName,
                        enabled |-> config.enabled, windowSeconds |-> config.windowSeconds,
                        tokenMultiplier |-> config.tokenMultiplier, cutoff |-> cutoff,
                        value |-> multiplierOf(calls, toolName, config, now),
                        valueNC |-> multiplierOf(callsNC, toolName, config, now),
                        toolCount |-> 0, totalCalls |-> 0]
        /\ UNCHANGED <<now, history, cleanupWindows>>

getEscalationMultiplier(toolName, config) ==
    LET cutoff == now - config.windowSeconds * MsPerSecond
        report(v, vnc) ==
            [op |-> "getEscalationMultiplier", tool |-> toolName,
             enabled |-> config.enabled, windowSeconds |-> config.windowSeconds,
             tokenMultiplier |-> config.tokenMultiplier, cutoff |-> cutoff,
             value |-> v, valueNC |-> vnc, toolCount |-> 0, totalCalls |-> 0]
    IN  IF ~config.enabled
        THEN /\ lastCall' = report(1, 1)
             /\ UNCHANGED <<now, calls, callsNC, history, floor, cleanupWindows>>
        ELSE /\ calls' = prunedOf(calls, toolName, config, now)
             /\ callsNC' = prunedOf(callsNC, toolName, config, now)
             /\ floor' = [floor EXCEPT ![toolName] = Max(@, cutoff)]
             /\ lastCall' = report(multiplierOf(calls, toolName, config, now),
                                   multiplierOf(callsNC, toolName, config, now))
             /\ UNCHANGED <<now, history, cleanupWindows>>

cleanup(maxWindowSeconds) ==
    LET cutoff == cleanupCutoff(now, maxWindowSeconds)
    IN  /\ calls' = cleanedOf(calls, cutoff)
        /\ floor' = [t \in Tools |-> Max(floor[t], cutoff)]
        /\ cleanupWindows' = cleanupWindows \cup {maxWindowSeconds}
        /\ lastCall' = [NoCall EXCEPT !.op = "cleanup", !.windowSeconds = maxWindowSeconds,
                                      !.cutoff = cutoff]
        /\ UNCHANGED <<now, callsNC, history>>

\* a reset that leaves the stored timestamps in place
resetKeepingCalls ==
    /\ UNCHANGED <<now, calls, callsNC, history, floor, cleanupWindows>>
    /\ lastCall' = [NoCall EXCEPT !.op = "reset",
                                  !.toolCount = getStats(calls).toolCount,
                                  !.totalCalls = getStats(calls).totalCalls]

reset ==
    /\ calls' = EmptyMap
    /\ callsNC' = EmptyMap
    /\ history' = <<>>
    /\ floor' = [t \in Tools |-> NoFloor]
    /\ cleanupWindows' = {}
    /\ lastCall' = [NoCall EXCEPT !.op = "reset",
                                  !.toolCount = getStats(calls).toolCount,
                                  !.totalCalls = getStats(calls).totalCalls]
    /\ UNCHANGED now

\* getStats() called by the tests after an operation
getStatsCall ==
    /\ lastCall' = [NoCall EXCEPT !.op = "getStats",
                                  !.toolCount = getStats(calls).toolCount,
                                  !.totalCalls = getStats(calls).totalCalls]
    /\ UNCHANGED <<now, calls, callsNC, history, floor, cleanupWindows>>

\* the clock moves on (vi.advanceTimersByTime in the tests)
advanceTime(ms) ==
    /\ now + ms <= MaxClockSeconds * MsPerSecond
    /\ now' = now + ms
    /\ lastCall' = [NoCall EXCEPT !.op = "advanceTime"]
    /\ UNCHANGED <<calls, callsNC, history, floor, cleanupWindows>>

TrackerStart ==
    /\ now = 0
    /\ calls = EmptyMap
    /\ callsNC = EmptyMap
    /\ history = <<>>
    /\ floor = [t \in Tools |-> NoFloor]
    /\ cleanupWindows = {}
    /\ lastCall = NoCall

-----------------------------------------------------------------------------
(* JSON-like values and tool arguments *)

Str(v) == [type |-> "string", str |-> v]
Num(v) == [type |-> "number", num |-> v]
Bool(v) == [type |-> "boolean", bool |-> v]

Digit(d) ==
    CASE d = 0 -> "0" [] d = 1 -> "1" [] d = 2 -> "2" [] d = 3 -> "3" [] d = 4 -> "4"
      [] d = 5 -> "5" [] d = 6 -> "6" [] d = 7 -> "7" [] d = 8 -> "8" [] d = 9 -> "9"

RECURSIVE NumberToString(_)
NumberToString(n) ==
    IF n < 0 THEN "-" \o NumberToString(0 - n)
    ELSE IF n < 10 THEN Digit(n)
    ELSE NumberToString(n \div 10) \o Digit(n % 10)

\* JavaScript String(value)
String(v) ==
    CASE v.type = "string" -> v.str
      [] v.type = "number" -> NumberToString(v.num)
      [] v.type = "boolean" -> IF v.bool THEN "true" ELSE "false"

\* the reserved control fields of a tool call
GoalField == "_mcpcp_goal"
BypassField == "_mcpcp_bypass"

\* the argument objects callers pass to callTool
CallerArgs ==
    { [arg1 |-> Str("value1")],
      [arg1 |-> Str("value1"), _mcpcp_goal |-> Str("Find something"), _mcpcp_bypass |-> Bool(TRUE)],
      [arg1 |-> Str("value1"), _mcpcp_goal |-> Num(123), _mcpcp_bypass |-> Str("yes")],
      [email |-> Str("user@example.com"), max_length |-> Num(5000)] }

-----------------------------------------------------------------------------
(* Aggregator and Masker, the Router's collaborators *)

NotFound == [found |-> FALSE]

\* the namespaced catalog: public name -> (client, originalName)
Catalog ==
    [fs__read_file |-> [found |-> TRUE, client |-> "fs", originalName |-> "read_file"],
     gh__read_file |-> [found |-> TRUE, client |-> "gh", originalName |-> "read_file"],
     db__secret    |-> [found |-> TRUE, client |-> "db", originalName |-> "secret"]]

PublicNames == (DOMAIN Catalog) \cup {"nonexistent__tool"}

\* Aggregator.findTool
findTool(namespacedName) ==
    IF namespacedName \in DOMAIN Catalog THEN Catalog[namespacedName] ELSE NotFound

\* Aggregator.isToolHidden
isToolHidden(namespacedName) == namespacedName = "db__secret"

\* Aggregator.getParameterOverrides
getParameterOverrides(namespacedName) ==
    IF namespacedName = "fs__read_file" THEN [max_length |-> Num(1000)] ELSE EmptyMap

Maskers == {"none", "disabled", "enabled"}

\* Masker.maskToolArgs: every e-mail address becomes a placeholder
maskToolArgs(args) ==
    [k \in DOMAIN args |-> IF args[k] = Str("user@example.com") THEN Str("EMAIL_1") ELSE args[k]]

-----------------------------------------------------------------------------
(* Router *)

\* what an upstream connection's callTool resolves with
UpstreamResults == { [content |-> <<[type |-> "text", text |-> "Success"]>>, isError |-> FALSE] }

\* what an upstream connection's callTool rejects with: an Error or any other value
UpstreamErrors ==
    { [isErrorInstance |-> TRUE, message |-> "Connection timeout"],
      [isErrorInstance |-> FALSE, value |-> Str("String error")],
      [isErrorInstance |-> FALSE, value |-> Num(42)] }

CallIds == 1..MaxInflight

NoOutcome == [kind |-> "none"]

Idle == [pc |-> "idle", name |-> "", args |-> EmptyMap, findToolCalls |-> 0,
         upstreamCalls |-> <<>>, maskCalls |-> <<>>, settled |-> NoOutcome,
         outcome |-> NoOutcome]

\* { content: [{ type: "text", text }], isError: true }
errorResult(text) == [content |-> <<[type |-> "text", text |-> text]>>, isError |-> TRUE]

\* the not-found result without the error flag
notFoundUnflagged(namespacedName) ==
    [content |-> <<[type |-> "text", text |-> "Error: Tool '" \o namespacedName \o "' not found"]>>,
     isError |-> FALSE]

\* the result of callTool when findTool returns nothing
notFound(namespacedName) == errorResult("Error: Tool '" \o namespacedName \o "' not found")

\* a catch block that re-throws, as readResource and getPrompt do
rethrow(error) == [kind |-> "throw", error |-> error]

\* the catch block of callTool
catch(error) ==
    [kind |-> "return",
     result |-> errorResult("Error calling tool: " \o
                    (IF error.isErrorInstance THEN error.message ELSE String(error.value)))]

\* the upstream invocation made with the public name instead of the original one
upstreamCallNamespaced(routing, namespacedName, args) ==
    [client |-> routing.client, name |-> namespacedName, args |-> args]

\* client.callTool(originalName, args)
upstreamCall(routing, namespacedName, args) ==
    [client |-> routing.client, name |-> routing.originalName, args |-> args]

\* callTool up to its await: lookup, not-found return, or the upstream invocation
callTool(c, namespacedName, args) ==
    LET routing == findTool(namespacedName)
        entered == [Idle EXCEPT !.name = namespacedName, !.args = args, !.findToolCalls = 1]
    IN  /\ inflight[c].pc = "idle"
        /\ IF ~routing.found
           THEN inflight' = [inflight EXCEPT ![c] =
                    [entered EXCEPT !.pc = "returned",
                                    !.outcome = [kind |-> "return", result |-> notFound(namespacedName)]]]
           ELSE inflight' = [inflight EXCEPT ![c] =
                    [entered EXCEPT !.pc = "awaiting",
                                    !.upstreamCalls =
                                        <<upstreamCall(routing, namespacedName, args)>>]]
        /\ UNCHANGED masker

\* the awaited client.callTool resolves: callTool returns its result
callToolResolved(c, result) ==
    /\ inflight[c].pc = "awaiting"
    /\ inflight' = [inflight EXCEPT ![c].pc = "returned",
                                    ![c].settled = [kind |-> "resolved", result |-> result],
                                    ![c].outcome = [kind |-> "return", result |-> result]]
    /\ UNCHANGED masker

\* the awaited client.callTool rejects: the catch block runs
callToolRejected(c, error) ==
    /\ inflight[c].pc = "awaiting"
    /\ inflight' = [inflight EXCEPT ![c].pc = "returned",
                                    ![c].settled = [kind |-> "rejected", error |-> error],
                                    ![c].outcome = catch(error)]
    /\ UNCHANGED masker

\* the caller has consumed the outcome and may call again
callerContinues(c) ==
    /\ inflight[c].pc = "returned"
    /\ inflight' = [inflight EXCEPT ![c] = Idle]
    /\ UNCHANGED masker

RouterStart(maskers) ==
    /\ masker \in maskers
    /\ inflight = [c \in CallIds |-> Idle]

NoSwap == [called |-> FALSE, requested |-> "none", threw |-> FALSE, busy |-> {}]

\* router.setMasker(m): the Router class has no such member, so the call is a
\* TypeError and nothing changes; `busy` notes the callers then inside callTool
setMasker(m) ==
    /\ ~swap.called
    /\ swap' = [called |-> TRUE, requested |-> m, threw |-> TRUE,
                busy |-> {c \in CallIds : inflight[c].pc # "idle"}]
    /\ UNCHANGED <<masker, inflight>>

SwapUnused == swap = NoSwap

-----------------------------------------------------------------------------
(* Router.readResource and Router.getPrompt *)

\* the namespaced resources: public URI -> (client, originalUri)
ResourceCatalog ==
    [x \in {"server1://file:///test.txt"} |->
        [found |-> TRUE, client |-> "server1", original |-> "file:///test.txt"]]

\* the namespaced prompts: public name -> (client, originalName)
PromptCatalog ==
    [x \in {"server1__greeting-prompt"} |->
        [found |-> TRUE, client |-> "server1", original |-> "greeting"]]

ResourceUris == (DOMAIN ResourceCatalog) \cup {"server1://nonexistent"}
PromptNames == (DOMAIN PromptCatalog) \cup {"server1__nonexistent"}

\* getPrompt's optional args
Undefined == [type |-> "undefined"]
PromptArgs == {Undefined, [name |-> "User"]}

\* Aggregator.findResource
findResource(namespacedUri) ==
    IF namespacedUri \in DOMAIN ResourceCatalog THEN ResourceCatalog[namespacedUri] ELSE NotFound

\* Aggregator.findPrompt
findPrompt(namespacedName) ==
    IF namespacedName \in DOMAIN PromptCatalog THEN PromptCatalog[namespacedName] ELSE NotFound

\* what an upstream readResource / getPrompt resolves with
ReadResults ==
    [readResource |-> [contents |-> <<[uri |-> "file:///test.txt", text |-> "Content here"]>>],
     getPrompt |-> [messages |-> <<[role |-> "user", text |-> "Hello, User!"]>>]]

NoRead == [pc |-> "idle", method |-> "", target |-> "", args |-> Undefined,
           upstreamCalls |-> <<>>, settled |-> NoOutcome, outcome |-> NoOutcome]

\* new Error(message)
Error(message) == [isErrorInstance |-> TRUE, message |-> message]

\* a catch block that converts the failure into an error result, as callTool does
convert(error) ==
    [kind |-> "return",
     result |-> errorResult(IF error.isErrorInstance THEN error.message ELSE String(error.value))]

\* the catch block of readResource and of getPrompt: throw error
propagate(error) == [kind |-> "throw", error |-> error]

\* readResource up to its await
readResource(c, namespacedUri) ==
    LET routing == findResource(namespacedUri)
        entered == [NoRead EXCEPT !.method = "readResource", !.target = namespacedUri]
    IN  /\ reads[c].pc = "idle"
        /\ IF ~routing.found
           THEN reads' = [reads EXCEPT ![c] =
                    [entered EXCEPT !.pc = "settled",
                                    !.outcome = [kind |-> "throw",
                                                 error |-> Error("Resource '" \o namespacedUri \o "' not found")]]]
           ELSE reads' = [reads EXCEPT ![c] =
                    [entered EXCEPT !.pc = "awaiting",
                                    !.upstreamCalls = <<[client |-> routing.client,
                                                         method |-> "readResource",
                                                         target |-> routing.original,
                                                         args |-> Undefined]>>]]

\* getPrompt up to its await
getPrompt(c, namespacedName, args) ==
    LET routing == findPrompt(namespacedName)
        entered == [NoRead EXCEPT !.method = "getPrompt", !.target = namespacedName, !.args = args]
    IN  /\ reads[c].pc = "idle"
        /\ IF ~routing.found
           THEN reads' = [reads EXCEPT ![c] =
                    [entered EXCEPT !.pc = "settled",
                                    !.outcome = [kind |-> "throw",
                                                 error |-> Error("Prompt '" \o namespacedName \o "' not found")]]]
           ELSE reads' = [reads EXCEPT ![c] =
                    [entered EXCEPT !.pc = "awaiting",
                                    !.upstreamCalls = <<[client |-> routing.client,
                                                         method |-> "getPrompt",
                                                         target |-> routing.original,
                                                         args |-> args]>>]]

\* the awaited client.readResource / client.getPrompt resolves
readResolved(c) ==
    /\ reads[c].pc = "awaiting"
    /\ reads' = [reads EXCEPT ![c].pc = "settled",
                              ![c].settled = [kind |-> "resolved", result |-> ReadResults[reads[c].method]],
                              ![c].outcome = [kind |-> "return", result |-> ReadResults[reads[c].method]]]

\* the awaited client.readResource / client.getPrompt rejects: the catch block runs
readRejected(c, error) ==
    /\ reads[c].pc = "awaiting"
    /\ reads' = [reads EXCEPT ![c].pc = "settled",
                              ![c].settled = [kind |-> "rejected", error |-> error],
                              ![c].outcome = propagate(error)]

\* the caller has consumed the outcome and may call again
readerContinues(c) ==
    /\ reads[c].pc = "settled"
    /\ reads' = [reads EXCEPT ![c] = NoRead]

ReadStart == reads = [c \in CallIds |-> NoRead]

-----------------------------------------------------------------------------
(* detectStrategy *)

\* the regular expressions of isCodeLike's codePatterns, by what they look for
CodePatterns ==
    {"function", "constCall", "def", "class", "importFrom", "require", "export",
     "braceLines", "methodChain", "arrowBlock", "typeAnnotation"}

\* A content string as detectStrategy sees it: whether JSON.parse accepts it
\* and which of the codePatterns test true on it.
ContentAnalyses == [parsesAsJson : BOOLEAN, matches : SUBSET CodePatterns]

\* "" : JSON.parse throws and no pattern matches
EmptyString == [parsesAsJson |-> FALSE, matches |-> {}]

\* isCodeLike with a single match sufficing
isCodeLikeAny(content) ==
    LET matchCount == Cardinality({pattern \in CodePatterns : pattern \in content.matches})
    IN  matchCount >= 1

\* isCodeLike: codePatterns.filter((pattern) => pattern.test(content)).length >= 2
isCodeLike(content) ==
    LET matchCount == Cardinality({pattern \in CodePatterns : pattern \in content.matches})
    IN  matchCount >= 2

detectStrategy(content) ==
    IF content.parsesAsJson THEN "json"
    ELSE IF isCodeLike(content) THEN "code"
    ELSE "default"

NoDetection == [pc |-> "none", content |-> EmptyString, strategy |-> ""]

\* one call of detectStrategy on the content drawn at the start
detect ==
    /\ detected.pc = "called"
    /\ detected' = [detected EXCEPT !.pc = "returned",
                                    !.strategy = detectStrategy(detected.content)]

StrategyStart(contents) ==
    detected \in {[pc |-> "called", content |-> c, strategy |-> ""] : c \in contents}

StrategyUnused == detected = NoDetection

-----------------------------------------------------------------------------
(* Compression prompts *)
(* A prompt is the sequence of its blocks, in the order of the template.    *)

Strategies == {"json", "code", "default"}

\* `Keep your response under ${maxTokens} tokens.` or the unbounded wording
tokenLimitOf(maxTokens) ==
    IF maxTokens # 0
    THEN "Keep your response under " \o NumberToString(maxTokens) \o " tokens."
    ELSE "Be concise while retaining helpful details."

\* `\nADDITIONAL INSTRUCTIONS: ${customInstructions}` or nothing
customInstructionBlockOf(customInstructions) ==
    IF customInstructions # "" THEN "\nADDITIONAL INSTRUCTIONS: " \o customInstructions ELSE ""

\* <document type="...">content</document>
DocumentBlock(strategy, content) ==
    [tag |-> "document", type |-> IF strategy \in {"json", "code"} THEN strategy ELSE "",
     text |-> content]

\* <task>...</task>
TaskBlock(instruction, tokenLimit, customInstructionBlock) ==
    [tag |-> "task", text |-> instruction, custom |-> customInstructionBlock,
     tokenLimit |-> tokenLimit]

\* <goal>goal</goal>
GoalBlock(goal) == [tag |-> "goal", text |-> goal]

\* the opening sentence of the task of a goal-focused prompt
extractInstruction(strategy) ==
    CASE strategy = "json" -> "Extract JSON data relevant to the goal."
      [] strategy = "code" -> "Extract code relevant to the goal."
      [] OTHER -> "Extract information from the document that serves the goal."

\* the opening sentence of the task of a standard prompt
compressInstruction(strategy) ==
    CASE strategy = "json" -> "Compress the JSON above while preserving structure and important values."
      [] strategy = "code" -> "Summarize the code above while preserving:"
      [] OTHER -> "Summarize the document above while preserving all important information, facts, and data."

getGoalFocusedPrompt(strategy, content, goal, tokenLimit, customInstructionBlock) ==
    << GoalBlock(goal),
       DocumentBlock(strategy, content),
       TaskBlock(extractInstruction(strategy), tokenLimit, customInstructionBlock) >>

\* getCompressionPrompt with all its parameters; 0 and "" stand for undefined
getCompressionPromptFor(strategy, content, maxTokens, goal, customInstructions) ==
    LET tokenLimit == tokenLimitOf(maxTokens)
        customInstructionBlock == customInstructionBlockOf(customInstructions)
    IN  IF goal # ""
        THEN getGoalFocusedPrompt(strategy, content, goal, tokenLimit, customInstructionBlock)
        ELSE << DocumentBlock(strategy, content),
                TaskBlock(compressInstruction(strategy), tokenLimit, customInstructionBlock) >>

PromptContents == {"test", "{\"key\": \"value\"}"}
PromptMaxTokens == {0, 100, 500}
PromptGoals == {"", "Find specific data", "find user"}
PromptCustomInstructions == {"", "Keep identifiers"}

NoPrompt == [pc |-> "none", strategy |-> "default", content |-> "", maxTokens |-> 0,
             goal |-> "", customInstructions |-> "", prompt |-> <<>>]

\* one call of getCompressionPrompt on the arguments drawn at the start
promptCall ==
    /\ prompted.pc = "called"
    /\ prompted' = [prompted EXCEPT
            !.pc = "returned",
            !.prompt = getCompressionPromptFor(prompted.strategy, prompted.content,
                            prompted.maxTokens, prompted.goal, prompted.customInstructions)]

PromptStart ==
    prompted \in [pc : {"called"}, strategy : Strategies, content : PromptContents,
                  maxTokens : PromptMaxTokens, goal : PromptGoals,
                  customInstructions : PromptCustomInstructions, prompt : {<<>>}]

PromptUnused == prompted = NoPrompt

-----------------------------------------------------------------------------
(* Pattern library *)
(* A RegExp object is an entry of the heap `regexes`; its index is its      *)
(* identity. A PIIPattern holds the index of its RegExp. The source of a    *)
(* regex literal is named after the comment above it in BUILTIN_PATTERNS.   *)

PIITypes == {"email", "ssn", "credit_card", "phone", "ip_address", "date_of_birth",
             "passport", "driver_license"}

PIIPattern(type, regex, replacement, confidence) ==
    [type |-> type, regex |-> regex, replacement |-> replacement, confidence |-> confidence]

BUILTIN_PATTERNS ==
    << PIIPattern("email", 1, "[EMAIL_REDACTED]", "high"),
       PIIPattern("ssn", 2, "[SSN_REDACTED]", "medium"),
       PIIPattern("credit_card", 3, "[CREDIT_CARD_REDACTED]", "high"),
       PIIPattern("credit_card", 4, "[CREDIT_CARD_REDACTED]", "high"),
       PIIPattern("credit_card", 5, "[CREDIT_CARD_REDACTED]", "high"),
       PIIPattern("credit_card", 6, "[CREDIT_CARD_REDACTED]", "high"),
       PIIPattern("credit_card", 7, "[CREDIT_CARD_REDACTED]", "medium"),
       PIIPattern("phone", 8, "[PHONE_REDACTED]", "medium"),
       PIIPattern("ip_address", 9, "[IP_REDACTED]", "high"),
       PIIPattern("ip_address", 10, "[IP_REDACTED]", "high"),
       PIIPattern("date_of_birth", 11, "[DOB_REDACTED]", "high"),
       PIIPattern("date_of_birth", 12, "[DOB_REDACTED]", "high"),
       PIIPattern("passport", 13, "[PASSPORT_REDACTED]", "low"),
       PIIPattern("driver_license", 14, "[DL_REDACTED]", "low") >>

\* the regex literals of BUILTIN_PATTERNS, in order; every one carries the g flag
RegexLiterals ==
    << "Email", "SSN", "Visa", "Mastercard", "Amex", "Discover", "Credit card with separators",
       "Phone", "IPv4", "IPv6", "Keyword before date", "Date followed by keyword",
       "US Passport", "US Driver's License" >>

\* new RegExp(source, flags): a fresh object, lastIndex 0
RegExp(source, flags) == [source |-> source, flags |-> flags, lastIndex |-> 0]

\* the heap once the module is loaded
BuiltinRegexes == [i \in 1..Len(RegexLiterals) |-> RegExp(RegexLiterals[i], "g")]

getPatternsForTypesReversed(types) ==
    LET kept == SelectSeq(BUILTIN_PATTERNS, LAMBDA p : p.type \in types)
    IN  [i \in 1..Len(kept) |-> kept[Len(kept) + 1 - i]]

getPatternsForTypes(types) == SelectSeq(BUILTIN_PATTERNS, LAMBDA p : p.type \in types)

\* { ...pattern } alone: the copy shares the RegExp of the pattern
clonePatternSpread(heap, pattern) == [heap |-> heap, pattern |-> pattern]

\* the heap after the call and the pattern returned
clonePattern(heap, pattern) ==
    [heap |-> Append(heap, RegExp(heap[pattern.regex].source, heap[pattern.regex].flags)),
     pattern |-> [pattern EXCEPT !.regex = Len(heap) + 1]]

TestInputs == {"test@example.com", "a@b.co, c@d.co"}

\* where a regex source matches in an input: <<[index, end]>>, left to right
matchesOf(source, input) ==
    CASE source = "Email" /\ input = "test@example.com" -> << [index |-> 0, end |-> 16] >>
      [] source = "Email" /\ input = "a@b.co, c@d.co" ->
            << [index |-> 0, end |-> 6], [index |-> 8, end |-> 14] >>
      [] OTHER -> << >>

\* RegExp.prototype.test: a global regex searches from lastIndex and moves it
\* to the end of the match, or back to 0 when nothing matches
test(heap, regex, input) ==
    LET r == heap[regex]
        from == IF r.flags = "g" THEN r.lastIndex ELSE 0
        found == SelectSeq(matchesOf(r.source, input), LAMBDA m : m.index >= from)
    IN  [heap |-> IF r.flags # "g" THEN heap
                  ELSE IF found # << >> THEN [heap EXCEPT ![regex].lastIndex = found[1].end]
                  ELSE [heap EXCEPT ![regex].lastIndex = 0],
         result |-> found # << >>]

lastIndexes(heap) == [i \in 1..Len(heap) |-> heap[i].lastIndex]

NoLibCall == [op |-> "none", regex |-> 0, input |-> "", before |-> << >>,
              types |-> {}, patterns |-> << >>, result |-> FALSE]

MaxClones == 2

\* the patterns the tests clone: BUILTIN_PATTERNS[0], which is the email pattern
ClonedPatterns == {BUILTIN_PATTERNS[1]}

clonePatternCall(pattern) ==
    /\ Len(clones) < MaxClones
    /\ LET c == clonePattern(regexes, pattern)
       IN  /\ regexes' = c.heap
           /\ clones' = Append(clones, [pattern |-> c.pattern, of |-> pattern])
           /\ libCall' = [NoLibCall EXCEPT !.op = "clonePattern", !.regex = c.pattern.regex,
                                           !.before = lastIndexes(regexes)]

testCall(pattern, input) ==
    LET t == test(regexes, pattern.regex, input)
    IN  /\ regexes' = t.heap
        /\ libCall' = [NoLibCall EXCEPT !.op = "test", !.regex = pattern.regex,
                                        !.input = input, !.before = lastIndexes(regexes),
                                        !.result = t.result]
        /\ UNCHANGED clones

getPatternsForTypesCall(types) ==
    /\ libCall' = [NoLibCall EXCEPT !.op = "getPatternsForTypes", !.types = types,
                                    !.patterns = getPatternsForTypes(types)]
    /\ UNCHANGED <<regexes, clones>>

PatternStart ==
    /\ regexes = BuiltinRegexes
    /\ clones = << >>
    /\ libCall = NoLibCall

PatternUnused == PatternStart

-----------------------------------------------------------------------------
(* Masker *)
(* Arguments are a sequence of string fields; a string is a sequence of     *)
(* units, each a word that a pattern matches whole or not at all.           *)

MaxFieldUnits == 2

ArgFields == 1..2

MaskUnits == {"sensitive@email.com", "user@example.com", "123-45-6789", "Success"}

MaskableArgs ==
    [ArgFields -> UNION {[1..n -> MaskUnits] : n \in 0..MaxFieldUnits}]

\* the PII categories a masking policy may activate here
ActiveTypes == {{"email"}, {"email", "ssn"}}

\* whether the regex of a pattern matches a unit
matchesUnit(pattern, unit) ==
    \/ RegexLiterals[pattern.regex] = "Email" /\ unit \in {"sensitive@email.com", "user@example.com"}
    \/ RegexLiterals[pattern.regex] = "SSN" /\ unit = "123-45-6789"

\* the first active pattern, in list order, that matches the unit; 0 if none
firstMatching(patterns, unit) ==
    IF \E k \in 1..Len(patterns) : matchesUnit(patterns[k], unit)
    THEN CHOOSE k \in 1..Len(patterns) :
            /\ matchesUnit(patterns[k], unit)
            /\ \A h \in 1..(k - 1) : ~matchesUnit(patterns[h], unit)
    ELSE 0

\* the matches in the arguments, as <<field, index>>
matchesIn(args, patterns) ==
    {<<f, i>> \in ArgFields \X (1..MaxFieldUnits + 1) :
        i <= Len(args[f]) /\ firstMatching(patterns, args[f][i]) # 0}

\* the running number of a match: matches are numbered field by field, left to right
ordinal(args, patterns, f, i) ==
    Cardinality({m \in matchesIn(args, patterns) : m[1] < f \/ (m[1] = f /\ m[2] <= i)})

\* the fixed redaction string of the pattern
placeholderRedacted(pattern, n) == pattern.replacement

\* a placeholder token of its own for every match
placeholderOf(pattern, n) ==
    "[" \o pattern.type \o "_" \o NumberToString(n) \o "]"

Masker_maskToolArgs(args, types) ==
    LET patterns == getPatternsForTypes(types)
        found == matchesIn(args, patterns)
        tokenAt(f, i) ==
            placeholderOf(patterns[firstMatching(patterns, args[f][i])],
                          ordinal(args, patterns, f, i))
        tokens == {tokenAt(m[1], m[2]) : m \in found}
        \* Map.set: a later match overwrites an earlier one under the same key
        lastWith(token) ==
            CHOOSE m \in found :
                /\ tokenAt(m[1], m[2]) = token
                /\ \A o \in found : tokenAt(o[1], o[2]) = token =>
                        ordinal(args, patterns, o[1], o[2]) <= ordinal(args, patterns, m[1], m[2])
    IN  [masked |-> [f \in ArgFields |-> [i \in 1..Len(args[f]) |->
                        IF <<f, i>> \in found THEN tokenAt(f, i) ELSE args[f][i]]],
         wasMasked |-> found # {},
         maskedFields |-> {[path |-> m, originalValue |-> args[m[1]][m[2]],
                            placeholder |-> tokenAt(m[1], m[2]),
                            piiType |-> patterns[firstMatching(patterns, args[m[1]][m[2]])].type,
                            detectionMethod |-> "pattern"] : m \in found},
         restorationMap |-> [token \in tokens |->
                                args[lastWith(token)[1]][lastWith(token)[2]]]]

\* the caller's reversal: every placeholder of the map replaced by its value
restore(masked, restorationMap) ==
    [f \in DOMAIN masked |-> [i \in 1..Len(masked[f]) |->
        IF masked[f][i] \in DOMAIN restorationMap
        THEN restorationMap[masked[f][i]] ELSE masked[f][i]]]

NoMaskResult == [masked |-> << >>, wasMasked |-> FALSE, maskedFields |-> {},
                 restorationMap |-> << >>]

NoMasking == [pc |-> "none", args |-> << >>, types |-> {}, result |-> NoMaskResult]

maskToolArgsCall ==
    /\ masking.pc = "called"
    /\ masking' = [masking EXCEPT !.pc = "returned",
                                  !.result = Masker_maskToolArgs(masking.args, masking.types)]

MaskingStart ==
    masking \in [pc : {"called"}, args : MaskableArgs, types : ActiveTypes,
                 result : {NoMaskResult}]

MaskingUnused == masking = NoMasking

-----------------------------------------------------------------------------
(* LLM detector *)
(* The text of a model response is a sequence of chunks: prose, or one JSON *)
(* object. A field of the object is a set: empty when the field is omitted, *)
(* else holding its value.                                                  *)

MaxChunks == 2

DetectorTexts == {"Some text", "test@example.com"}

Prose == [kind |-> "prose", hasPII |-> {}, detectedTypes |-> {}, maskedText |-> {}]

JsonObjects ==
    [kind : {"object"}, hasPII : {{}, {TRUE}, {FALSE}},
     detectedTypes : {{}, {<<"email">>}}, maskedText : {{}, {"[EMAIL_REDACTED]"}}]

\* what generateText resolves with: { text }
DetectorResponses == UNION {[1..n -> {Prose} \cup JsonObjects] : n \in 0..MaxChunks}

\* what generateText rejects with
DetectorErrors == {"LLM timeout", "Network error"}

\* the fail-open result
failOpen(text) == [hasPII |-> FALSE, detectedTypes |-> << >>, maskedText |-> text]

\* the position of the first JSON object in the response, 0 if there is none
firstObject(response) ==
    IF \E i \in 1..Len(response) : response[i].kind = "object"
    THEN CHOOSE i \in 1..Len(response) :
            /\ response[i].kind = "object"
            /\ \A k \in 1..(i - 1) : response[k].kind # "object"
    ELSE 0

\* a verdict counts only when it carries all three fields
verdictOfComplete(text, parsed) ==
    IF parsed.hasPII = {} \/ parsed.detectedTypes = {} \/ parsed.maskedText = {}
    THEN failOpen(text)
    ELSE [hasPII |-> TRUE \in parsed.hasPII,
          detectedTypes |-> CHOOSE d \in parsed.detectedTypes : TRUE,
          maskedText |-> CHOOSE m \in parsed.maskedText : TRUE]

\* the result built from a parsed verdict: every omitted field takes its default
verdictOf(text, parsed) ==
    [hasPII |-> TRUE \in parsed.hasPII,
     detectedTypes |-> IF parsed.detectedTypes = {} THEN << >>
                       ELSE CHOOSE d \in parsed.detectedTypes : TRUE,
     maskedText |-> IF parsed.maskedText = {} THEN text
                    ELSE CHOOSE m \in parsed.maskedText : TRUE]

\* what detectAndMask resolves with once generateText has resolved
detected_from(text, response) ==
    IF firstObject(response) = 0 THEN failOpen(text)
    ELSE verdictOf(text, response[firstObject(response)])

NoDetectorResult == [hasPII |-> FALSE, detectedTypes |-> << >>, maskedText |-> ""]

NoDetectorCall == [pc |-> "none", text |-> "", rejected |-> FALSE, response |-> << >>,
                   error |-> "", threw |-> FALSE, result |-> NoDetectorResult]

\* await generateText(...) resolves
detectorResolved(response) ==
    /\ detection.pc = "awaiting"
    /\ detection' = [detection EXCEPT !.pc = "returned", !.response = response,
                                      !.result = detected_from(detection.text, response)]

\* await generateText(...) rejects: caught, fail open
detectorRejected(error) ==
    /\ detection.pc = "awaiting"
    /\ detection' = [detection EXCEPT !.pc = "returned", !.rejected = TRUE, !.error = error,
                                      !.result = failOpen(detection.text)]

DetectorStart ==
    detection \in [pc : {"awaiting"}, text : DetectorTexts, rejected : {FALSE},
                   response : {<< >>}, error : {""}, threw : {FALSE},
                   result : {NoDetectorResult}]

DetectorUnused == detection = NoDetectorCall

-----------------------------------------------------------------------------
(* Policy resolver *)
(* A policy is a record of its fields. An optional part of the              *)
(* configuration is a set: empty when it is left out, else holding its      *)
(* value; an override is a record of optional fields.                       *)

\* createTestCompressionConfig().defaultPolicy
DefaultCompressionPolicy == [enabled |-> TRUE, tokenThreshold |-> 1000]

CompressionOverrides ==
    [enabled : {{}, {TRUE}, {FALSE}}, tokenThreshold : {{}, {500}, {2000}}]

MaskingDefaults ==
    { [enabled |-> TRUE, piiTypes |-> {"email", "ssn"}],
      [enabled |-> FALSE, piiTypes |-> {"email"}] }

MaskingOverrides ==
    [enabled : {{}, {TRUE}, {FALSE}}, piiTypes : {{}, {{"phone"}}}]

\* the policy used when config.masking is missing
MaskingDisabled == [enabled |-> FALSE, piiTypes |-> {}]

ToolEntries ==
    [compression : {{}} \cup {{o} : o \in CompressionOverrides},
     masking : {{}} \cup {{o} : o \in MaskingOverrides}]

ConfiguredTool == "test__mytool"

ResolvedTools == {"test__mytool", "test__nonexistent"}

ResolverConfigs ==
    [compression : {DefaultCompressionPolicy},
     masking : {{}} \cup {{d} : d \in MaskingDefaults},
     tool : {{}} \cup {{e} : e \in ToolEntries}]

\* the global default alone, the override ignored
mergeDefaultOnly(defaultPolicy, override) == defaultPolicy

\* { ...defaultPolicy, ...override }
merge(defaultPolicy, override) ==
    [f \in DOMAIN defaultPolicy |->
        IF override[f] # {} THEN CHOOSE v \in override[f] : TRUE ELSE defaultPolicy[f]]

\* the tool-specific entry of a namespaced tool name, as a set
toolConfigOf(cfg, toolName) == IF toolName = ConfiguredTool THEN cfg.tool ELSE {}

\* the override in `given`, or the override that defines no field
overrideOf(given, defaultPolicy) ==
    IF given = {} THEN [f \in DOMAIN defaultPolicy |-> {}] ELSE CHOOSE o \in given : TRUE

resolveCompressionPolicy(cfg, toolName) ==
    merge(cfg.compression,
          overrideOf(UNION {e.compression : e \in toolConfigOf(cfg, toolName)}, cfg.compression))

resolveMaskingPolicy(cfg, toolName) ==
    LET defaultPolicy == IF cfg.masking = {} THEN MaskingDisabled
                         ELSE CHOOSE d \in cfg.masking : TRUE
    IN  merge(defaultPolicy,
              overrideOf(UNION {e.masking : e \in toolConfigOf(cfg, toolName)}, defaultPolicy))

NoResolution == [op |-> "none", toolName |-> "", policy |-> MaskingDisabled]

resolveCall(op, toolName) ==
    /\ resolution' = [op |-> op, toolName |-> toolName,
                      policy |-> IF op = "resolveCompressionPolicy"
                                 THEN resolveCompressionPolicy(resolverConfig, toolName)
                                 ELSE resolveMaskingPolicy(resolverConfig, toolName)]
    /\ UNCHANGED resolverConfig

ResolverStart(configs) ==
    /\ resolverConfig \in configs
    /\ resolution = NoResolution

ResolverUnused ==
    ResolverStart({[compression |-> DefaultCompressionPolicy, masking |-> {}, tool |-> {}]})

-----------------------------------------------------------------------------
(* Compressor *)
(* A text is the sequence of the units the tokenizer splits it into.  encode *)
(* throws on a text that holds the special token.                           *)

SpecialToken == "<|endoftext|>"
Newline == "\n"
Units == {"a", SpecialToken}

RECURSIVE TextsOfLength(_)
TextsOfLength(n) ==
    IF n = 0 THEN {<<>>}
    ELSE {Append(t, u) : t \in TextsOfLength(n - 1), u \in Units}

\* the strings handed to compress
Texts == UNION {TextsOfLength(n) : n \in 0..MaxTextTokens}

\* what the compression model answers
ModelOutputs == {<<"s">>, <<"s", "s", "s">>, <<"s", SpecialToken>>}

\* what generateText rejects with
ModelErrors == {[isErrorInstance |-> TRUE, message |-> "API error"]}

\* what encode throws
TokenizerError == [isErrorInstance |-> TRUE, message |-> "Disallowed special token"]

TokenThresholds == {1, 3}
MaxOutputTokens == {100}

CompressionConfigs == [tokenThreshold : TokenThresholds, maxOutputTokens : MaxOutputTokens]

\* the analyses detectStrategy may obtain of a content handed to compress
SampleAnalyses ==
    { [parsesAsJson |-> TRUE, matches |-> {}],
      [parsesAsJson |-> FALSE, matches |-> {"function", "arrowBlock"}],
      [parsesAsJson |-> FALSE, matches |-> {"braceLines"}] }

\* encode(text) throws
encodeThrows(text) == \E i \in 1..Len(text) : text[i] = SpecialToken

\* countTokens: encode(text).length
countTokens(text) ==
    IF encodeThrows(text) THEN [threw |-> TRUE] ELSE [threw |-> FALSE, value |-> Len(text)]

\* the threshold test with the bound made exclusive
underThresholdExclusive(tokens, cfg) == tokens < cfg.tokenThreshold

\* originalTokens <= this.compressionConfig.tokenThreshold
underThreshold(tokens, cfg) == tokens <= cfg.tokenThreshold

\* getCompressionPrompt(strategy, content, maxTokens) without goal
getCompressionPrompt(strategy, content, maxTokens) ==
    [document |-> content, strategy |-> strategy, keepUnder |-> maxTokens]

\* generateText called without its maxTokens bound
generateTextRequestUnbounded(strategy, content, cfg) ==
    [prompt |-> getCompressionPrompt(strategy, content, cfg.maxOutputTokens),
     maxTokens |-> 0]

\* the arguments of generateText
generateTextRequest(strategy, content, cfg) ==
    [prompt |-> getCompressionPrompt(strategy, content, cfg.maxOutputTokens),
     maxTokens |-> cfg.maxOutputTokens]

\* the CompressionResult of content left as it is
uncompressed(content, strategy, originalTokens) ==
    [original |-> content, compressed |-> content, strategy |-> strategy,
     originalTokens |-> originalTokens, compressedTokens |-> originalTokens,
     wasCompressed |-> FALSE]

\* a catch block that reports an empty compression
onFailureEmpty(content, strategy, originalTokens) ==
    [original |-> content, compressed |-> <<>>, strategy |-> strategy,
     originalTokens |-> originalTokens, compressedTokens |-> 0,
     wasCompressed |-> TRUE]

\* the catch block of compress
onFailure(content, strategy, originalTokens) == uncompressed(content, strategy, originalTokens)

\* compress up to its await of generateText
compressStart(content, analysis, cfg) ==
    LET originalTokens == countTokens(content)
        strategy == detectStrategy(analysis)
    IN  IF originalTokens.threw
        THEN [kind |-> "throw", error |-> TokenizerError]
        ELSE IF underThreshold(originalTokens.value, cfg)
        THEN [kind |-> "return",
              result |-> uncompressed(content, "default", originalTokens.value)]
        ELSE [kind |-> "await", strategy |-> strategy, originalTokens |-> originalTokens.value,
              request |-> generateTextRequest(strategy, content, cfg)]

\* compress from the settlement of generateText to its return
compressFinish(content, strategy, originalTokens, settled) ==
    IF settled.kind = "rejected"
    THEN onFailure(content, strategy, originalTokens)
    ELSE LET compressedTokens == countTokens(settled.text)
         IN  IF compressedTokens.threw
             THEN onFailure(content, strategy, originalTokens)
             ELSE [original |-> content, compressed |-> settled.text, strategy |-> strategy,
                   originalTokens |-> originalTokens, compressedTokens |-> compressedTokens.value,
                   wasCompressed |-> TRUE]

(* Tool results *)

TextPart(text) == [type |-> "text", text |-> text]
ImagePart == [type |-> "image", data |-> "iVBORw0KGgo=", mimeType |-> "image/png"]

PartSamples == {TextPart(<<"a">>), TextPart(<<"a", "a">>), ImagePart}

RECURSIVE ContentsOfLength(_, _)
ContentsOfLength(samples, n) ==
    IF n = 0 THEN {<<>>}
    ELSE {Append(c, x) : c \in ContentsOfLength(samples, n - 1), x \in samples}

\* the CallToolResults handed to compressToolResult
ToolResults ==
    [content : UNION {ContentsOfLength(PartSamples, n) : n \in 0..MaxParts},
     isError : BOOLEAN]

\* result.content.filter((c) => c.type === "text")
textContents(content) == SelectSeq(content, LAMBDA c : c.type = "text")

\* array.join("\n") of the texts
RECURSIVE join(_)
join(texts) ==
    IF Len(texts) = 0 THEN <<>>
    ELSE IF Len(texts) = 1 THEN texts[1]
    ELSE texts[1] \o <<Newline>> \o join(Tail(texts))

\* textContents.map((c) => c.text).join("\n")
combinedText(content) ==
    LET texts == textContents(content)
    IN  join([i \in 1..Len(texts) |-> texts[i].text])

\* result.content.map: every text part becomes the compressed text
newContent(content, compressedText) ==
    [i \in 1..Len(content) |->
        IF content[i].type = "text" THEN TextPart(compressedText) ELSE content[i]]

\* the filter that keeps every text part
RECURSIVE dedupedKeepAll(_, _)
dedupedKeepAll(content, seenText) == content

\* newContent.filter: only the first text part is kept
RECURSIVE deduped(_, _)
deduped(content, seenText) ==
    IF Len(content) = 0 THEN <<>>
    ELSE IF Head(content).type = "text"
         THEN IF seenText
              THEN deduped(Tail(content), seenText)
              ELSE <<Head(content)>> \o deduped(Tail(content), TRUE)
         ELSE <<Head(content)>> \o deduped(Tail(content), seenText)

\* the finish that rebuilds the content whatever compress reported
toolResultFinishRebuilt(result, compressed) ==
    [result EXCEPT !.content = deduped(newContent(result.content, compressed.compressed), FALSE)]

\* compressToolResult from the return of compress to its own return
toolResultFinish(result, compressed) ==
    IF ~compressed.wasCompressed
    THEN result
    ELSE [result EXCEPT !.content = deduped(newContent(result.content, compressed.compressed), FALSE)]

(* Resource results *)

TextResource(text) == [uri |-> "file:///test.txt", text |-> text]
BlobResource == [uri |-> "file:///image.png", blob |-> "iVBORw0KGgo="]

ResourceSamples == {TextResource(<<"a">>), TextResource(<<"a", "a", "a", "a">>), BlobResource}

MaxResourceContents == 2

\* the ReadResourceResults handed to compressResourceResult
ResourceResults ==
    [contents : UNION {ContentsOfLength(ResourceSamples, n) : n \in 1..MaxResourceContents}]

\* "text" in content && typeof content.text === "string"
hasText(content) == "text" \in DOMAIN content

\* the map callback of compressResourceResult from the return of compress on
resourceContentFinish(content, compressed) ==
    IF ~compressed.wasCompressed
    THEN content
    ELSE [content EXCEPT !.text = compressed.compressed]

(* The method in progress *)

NoCompression == [kind |-> "none"]

\* one call of compress made by the method in progress
\*   state "skipped": compress is not called for this content
\*   state "waiting": compress awaits generateText
\*   state "returned": compress has returned result
\*   settled: how the generateText it awaited settled
Slot(state, content, strategy, originalTokens, result) ==
    [state |-> state, content |-> content, strategy |-> strategy,
     originalTokens |-> originalTokens, settled |-> NoOutcome, result |-> result]

NoJob == [pc |-> "idle", entry |-> "", input |-> <<>>, slots |-> <<>>,
          modelCalls |-> <<>>, outcome |-> NoOutcome]

\* the slot compress(content) leaves when it starts
slotOf(content, started) ==
    IF started.kind = "await"
    THEN Slot("waiting", content, started.strategy, started.originalTokens, NoCompression)
    ELSE IF started.kind = "return"
    THEN Slot("returned", content, "default", started.result.originalTokens, started.result)
    ELSE Slot("threw", content, "", 0, NoCompression)

requestsOf(started) == IF started.kind = "await" THEN <<started.request>> ELSE <<>>

anyWaiting(slots) == \E i \in 1..Len(slots) : slots[i].state = "waiting"

\* a call of compress by a Compressor configured with cfg, up to its await
compressCalled(content, analysis, cfg) ==
    LET started == compressStart(content, analysis, cfg)
    IN  [NoJob EXCEPT
            !.entry = "compress", !.input = content,
            !.slots = <<slotOf(content, started)>>,
            !.modelCalls = requestsOf(started),
            !.pc = IF started.kind = "await" THEN "generating" ELSE "settled",
            !.outcome = IF started.kind = "await" THEN NoOutcome ELSE started]

\* async compress(content)
compress(content, analysis) ==
    /\ job.pc = "idle"
    /\ job' = compressCalled(content, analysis, compressionConfig)
    /\ UNCHANGED compressionConfig

\* async compressToolResult(result) up to its first await
compressToolResult(result, analysis) ==
    LET combined == combinedText(result.content)
        tokenCount == countTokens(combined)
        started == compressStart(combined, analysis, compressionConfig)
        entered == [NoJob EXCEPT !.entry = "compressToolResult", !.input = result]
        unchanged == [entered EXCEPT !.pc = "settled",
                                     !.outcome = [kind |-> "return", result |-> result]]
    IN  /\ job.pc = "idle"
        /\ job' =
            IF Len(textContents(result.content)) = 0 THEN unchanged
            ELSE IF tokenCount.threw
            THEN [entered EXCEPT !.pc = "settled",
                                 !.outcome = [kind |-> "throw", error |-> TokenizerError]]
            ELSE IF underThreshold(tokenCount.value, compressionConfig) THEN unchanged
            ELSE [entered EXCEPT
                    !.slots = <<slotOf(combined, started)>>,
                    !.modelCalls = requestsOf(started),
                    !.pc = IF started.kind = "await" THEN "generating" ELSE "settled",
                    !.outcome = IF started.kind = "await" THEN NoOutcome
                                ELSE IF started.kind = "throw" THEN started
                                ELSE [kind |-> "return",
                                      result |-> toolResultFinish(result, started.result)]]
        /\ UNCHANGED compressionConfig

\* the map callback of compressResourceResult up to its await
resourceContentStart(content, analysis) ==
    IF ~hasText(content) THEN Slot("skipped", <<>>, "", 0, NoCompression)
    ELSE LET tokenCount == countTokens(content.text)
         IN  IF tokenCount.threw THEN Slot("threw", content.text, "", 0, NoCompression)
             ELSE IF underThreshold(tokenCount.value, compressionConfig)
             THEN Slot("skipped", content.text, "", tokenCount.value, NoCompression)
             ELSE slotOf(content.text, compressStart(content.text, analysis, compressionConfig))

\* what the map callback resolves with
resourceContentOf(content, slot) ==
    IF slot.state = "returned" THEN resourceContentFinish(content, slot.result) ELSE content

\* the value of compressResourceResult once Promise.all has settled
resourceOutcome(result, slots) ==
    IF \E i \in 1..Len(slots) : slots[i].state = "threw"
    THEN [kind |-> "throw", error |-> TokenizerError]
    ELSE [kind |-> "return",
          result |-> [result EXCEPT !.contents =
                        [i \in 1..Len(result.contents) |->
                            resourceContentOf(result.contents[i], slots[i])]]]

\* async compressResourceResult(result) up to the await of Promise.all
compressResourceResult(result, analysis) ==
    LET slots == [i \in 1..Len(result.contents) |->
                     resourceContentStart(result.contents[i], analysis)]
        requests == [i \in 1..Len(slots) |->
                        generateTextRequest(slots[i].strategy, slots[i].content, compressionConfig)]
        issued == SelectSeq(requests, LAMBDA r :
                     \E i \in 1..Len(slots) :
                        slots[i].state = "waiting" /\ r.prompt.document = slots[i].content)
    IN  /\ job.pc = "idle"
        /\ job' = [NoJob EXCEPT
                !.entry = "compressResourceResult", !.input = result,
                !.slots = slots,
                !.modelCalls = issued,
                !.pc = IF anyWaiting(slots) THEN "generating" ELSE "settled",
                !.outcome = IF anyWaiting(slots) THEN NoOutcome
                            ELSE resourceOutcome(result, slots)]
        /\ UNCHANGED compressionConfig

\* the value the method in progress settles with once no compress is pending
outcomeOf(entry, input, slots) ==
    IF entry = "compress" THEN [kind |-> "return", result |-> slots[1].result]
    ELSE IF entry = "compressToolResult"
    THEN [kind |-> "return", result |-> toolResultFinish(input, slots[1].result)]
    ELSE resourceOutcome(input, slots)

\* a pending generateText settles and the compress awaiting it runs to its return
generateTextSettles(i, settled) ==
    LET slot == job.slots[i]
        result == compressFinish(slot.content, slot.strategy, slot.originalTokens, settled)
        slots == [job.slots EXCEPT ![i] = [slot EXCEPT !.state = "returned", !.settled = settled,
                                                     !.result = result]]
    IN  /\ job.pc = "generating"
        /\ i \in 1..Len(job.slots)
        /\ slot.state = "waiting"
        /\ job' = [job EXCEPT
                !.slots = slots,
                !.pc = IF anyWaiting(slots) THEN "generating" ELSE "settled",
                !.outcome = IF anyWaiting(slots) THEN NoOutcome
                            ELSE outcomeOf(job.entry, job.input, slots)]
        /\ UNCHANGED compressionConfig

generateTextResolved(i, text) == generateTextSettles(i, [kind |-> "resolved", text |-> text])

generateTextRejected(i, error) == generateTextSettles(i, [kind |-> "rejected", error |-> error])

\* the caller has consumed the outcome and calls the Compressor again
compressorContinues ==
    /\ job.pc = "settled"
    /\ job' = NoJob
    /\ UNCHANGED compressionConfig

CompressorStart(configs) ==
    /\ compressionConfig \in configs
    /\ job = NoJob

DefaultConfig == [tokenThreshold |-> 1, maxOutputTokens |-> 100]

-----------------------------------------------------------------------------
(* Compression cache *)
(* Compressor.compress keeps no cache. `cached` follows what the documented *)
(* cache would hold: the last completed compression under its key, and, for *)
(* the compress in progress, whether a lookup at its start would have hit.  *)

\* cache.ttlSeconds
CacheTtlSeconds == {1}

\* the contents compressed repeatedly
CachedContents == {<<"a", "a">>, <<"a", "a", "a">>}

NoEntry == [content |-> << >>, targetTokens |-> 0, at |-> 0, artifact |-> {}]

NoLookup == [hit |-> FALSE, stale |-> FALSE, artifact |-> {}]

\* cache.get(hashContent(content, targetTokens)) at time t
lookupOf(entry, ttlSeconds, content, targetTokens, t) ==
    LET same == /\ entry.artifact # {}
                /\ entry.content = content
                /\ entry.targetTokens = targetTokens
        expired == t - entry.at > ttlSeconds * MsPerSecond
    IN  [hit |-> same /\ ~expired, stale |-> same /\ expired,
         artifact |-> IF same /\ ~expired THEN entry.artifact ELSE {}]

\* compress(content), with the lookup a cache would have made noted
compressNoted(content, analysis) ==
    /\ compress(content, analysis)
    /\ cached' = [cached EXCEPT !.lookup =
                    lookupOf(cached.entry, cached.ttlSeconds, content,
                             compressionConfig.maxOutputTokens, now)]

\* generateText resolves; the compression completed is what a cache would store
generateTextResolvedNoted(text) ==
    /\ generateTextResolved(1, text)
    /\ cached' = [cached EXCEPT !.entry =
                    [content |-> job.input,
                     targetTokens |-> compressionConfig.maxOutputTokens,
                     at |-> now,
                     artifact |-> {job'.outcome.result}]]

CacheStart ==
    cached \in [ttlSeconds : CacheTtlSeconds, entry : {NoEntry}, lookup : {NoLookup}]

CacheUnused == CacheStart

-----------------------------------------------------------------------------
(* Retry escalation in the tool-call pipeline *)
(* The caller records the call, queries the tracker for the multiplier and  *)
(* has the result compressed under the policy's budget scaled by it.        *)

\* retry escalation switched off
NoEscalation == [enabled |-> FALSE, windowSeconds |-> 1, tokenMultiplier |-> 2]

\* no tool call in its compression stage; retry is the configured retryEscalation
NoToolCall == [tool |-> "", retry |-> NoEscalation, at |-> 0, position |-> 0, multiplier |-> 0]

\* the tool results the pipeline compresses
PipelineContents == {<<"a", "a">>}

\* the policy's budget scaled by the escalation multiplier
scaledPolicy(cfg, multiplier) ==
    [cfg EXCEPT !.maxOutputTokens = cfg.maxOutputTokens * multiplier]

\* one tool call's compression stage: recordCall, getEscalationMultiplier,
\* then compress under the scaled budget, up to the await of the model
compressWithEscalation(toolName, content, analysis) ==
    LET retry == toolCall.retry
        recorded == MapSet(calls, toolName, push(MapGetOrEmpty(calls, toolName), now))
        recordedNC == MapSet(callsNC, toolName, push(MapGetOrEmpty(callsNC, toolName), now))
        cutoff == now - retry.windowSeconds * MsPerSecond
        multiplier == IF retry.enabled THEN multiplierOf(recorded, toolName, retry, now) ELSE 1
        multiplierNC == IF retry.enabled THEN multiplierOf(recordedNC, toolName, retry, now) ELSE 1
    IN  /\ job.pc = "idle"
        /\ Len(history) < MaxCalls
        /\ history' = Append(history, [tool |-> toolName, ts |-> now])
        /\ calls' = IF retry.enabled THEN prunedOf(recorded, toolName, retry, now) ELSE recorded
        /\ callsNC' = IF retry.enabled THEN prunedOf(recordedNC, toolName, retry, now)
                      ELSE recordedNC
        /\ floor' = IF retry.enabled THEN [floor EXCEPT ![toolName] = Max(@, cutoff)] ELSE floor
        /\ lastCall' = [op |-> "getEscalationMultiplier", tool |-> toolName,
                        enabled |-> retry.enabled, windowSeconds |-> retry.windowSeconds,
                        tokenMultiplier |-> retry.tokenMultiplier, cutoff |-> cutoff,
                        value |-> multiplier, valueNC |-> multiplierNC]
        /\ toolCall' = [tool |-> toolName, retry |-> retry, at |-> now,
                        position |-> Len(history) + 1, multiplier |-> multiplier]
        /\ job' = compressCalled(content, analysis, scaledPolicy(compressionConfig, multiplier))
        /\ UNCHANGED <<now, cleanupWindows, compressionConfig>>

\* the compression stage is over
toolCallDone ==
    /\ compressorContinues
    /\ toolCall' = [NoToolCall EXCEPT !.retry = toolCall.retry]

PipelineStart(retries) == toolCall \in {[NoToolCall EXCEPT !.retry = r] : r \in retries}

PipelineUnused == PipelineStart({NoEscalation})

-----------------------------------------------------------------------------
(* Specifications *)

TrackerInit ==
    /\ TrackerStart /\ RouterStart({"none"}) /\ ReadStart /\ StrategyUnused /\ CompressorStart({DefaultConfig}) /\ PipelineUnused
    /\ PromptUnused
    /\ PatternUnused
    /\ MaskingUnused
    /\ DetectorUnused
    /\ ResolverUnused
    /\ SwapUnused
    /\ CacheUnused

DoRecordCall ==
    /\ \E t \in Tools : recordCall(t)
    /\ UNCHANGED <<routerVars, readVars, strategyVars, compressorVars, pipelineVars, promptVars, patternVars, maskingVars, detectorVars, resolverVars, swapVars, cacheVars>>
DoGetEscalationMultiplier ==
    /\ \E t \in Tools, c \in RetryEscalationConfig : getEscalationMultiplier(t, c)
    /\ UNCHANGED <<routerVars, readVars, strategyVars, compressorVars, pipelineVars, promptVars, patternVars, maskingVars, detectorVars, resolverVars, swapVars, cacheVars>>
DoCleanup ==
    /\ \E m \in CleanupWindowSeconds : cleanup(m)
    /\ UNCHANGED <<routerVars, readVars, strategyVars, compressorVars, pipelineVars, promptVars, patternVars, maskingVars, detectorVars, resolverVars, swapVars, cacheVars>>
DoReset ==
    /\ reset
    /\ UNCHANGED <<routerVars, readVars, strategyVars, compressorVars, pipelineVars, promptVars, patternVars, maskingVars, detectorVars, resolverVars, swapVars, cacheVars>>
DoAdvanceTime ==
    /\ \E ms \in AdvanceSteps : advanceTime(ms)
    /\ UNCHANGED <<routerVars, readVars, strategyVars, compressorVars, pipelineVars, promptVars, patternVars, maskingVars, detectorVars, resolverVars, swapVars, cacheVars>>

TrackerNext ==
    \/ DoRecordCall
    \/ DoGetEscalationMultiplier
    \/ DoCleanup
    \/ DoReset
    \/ DoAdvanceTime

TrackerSpec == TrackerInit /\ [][TrackerNext]_vars

(* The tracker around the edges of the window *)

\* the clock values within one millisecond of a whole second
WindowEdgeTimes ==
    {t \in 0..(MaxClockSeconds * MsPerSecond) :
        t % MsPerSecond \in {0, 1, MsPerSecond - 1}}

EdgePolicy == [enabled |-> TRUE, windowSeconds |-> 1, tokenMultiplier |-> 2]

EdgeInit == TrackerInit

DoRecordEdgeCall ==
    /\ recordCall("tool_a")
    /\ UNCHANGED <<routerVars, readVars, strategyVars, compressorVars, pipelineVars, promptVars, patternVars, maskingVars, detectorVars, resolverVars, swapVars, cacheVars>>
DoEdgeQuery ==
    /\ getEscalationMultiplier("tool_a", EdgePolicy)
    /\ UNCHANGED <<routerVars, readVars, strategyVars, compressorVars, pipelineVars, promptVars, patternVars, maskingVars, detectorVars, resolverVars, swapVars, cacheVars>>
DoAdvanceToEdge ==
    /\ \E t \in WindowEdgeTimes : t > now /\ advanceTime(t - now)
    /\ UNCHANGED <<routerVars, readVars, strategyVars, compressorVars, pipelineVars, promptVars, patternVars, maskingVars, detectorVars, resolverVars, swapVars, cacheVars>>

EdgeNext ==
    \/ DoRecordEdgeCall
    \/ DoEdgeQuery
    \/ DoAdvanceToEdge

EdgeSpec == EdgeInit /\ [][EdgeNext]_vars

(* The tracker under one retry-escalation policy *)

EnabledPolicies == {c \in RetryEscalationConfig : c.enabled}

OnePolicyInit ==
    /\ TrackerStart /\ RouterStart({"none"}) /\ ReadStart
    /\ StrategyUnused /\ CompressorStart({DefaultConfig})
    /\ PipelineStart(EnabledPolicies)
    /\ PromptUnused
    /\ PatternUnused
    /\ MaskingUnused
    /\ DetectorUnused
    /\ ResolverUnused
    /\ SwapUnused
    /\ CacheUnused

DoPolicyQuery ==
    /\ \E t \in Tools : getEscalationMultiplier(t, toolCall.retry)
    /\ UNCHANGED <<routerVars, readVars, strategyVars, compressorVars, pipelineVars, promptVars, patternVars, maskingVars, detectorVars, resolverVars, swapVars, cacheVars>>
DoCoveringCleanup ==
    /\ \E m \in CleanupWindowSeconds :
          m >= toolCall.retry.windowSeconds /\ cleanup(m)
    /\ UNCHANGED <<routerVars, readVars, strategyVars, compressorVars, pipelineVars, promptVars, patternVars, maskingVars, detectorVars, resolverVars, swapVars, cacheVars>>

OnePolicyNext ==
    \/ DoRecordCall
    \/ DoPolicyQuery
    \/ DoCoveringCleanup
    \/ DoAdvanceTime

OnePolicySpec == OnePolicyInit /\ [][OnePolicyNext]_vars

(* The tracker with its statistics read between the operations *)

\* cleanup(maxWindowSeconds: number = 300)
DefaultMaxWindowSeconds == 300

\* a short window, with escalation switched on and off
StatsPolicies == [enabled : BOOLEAN, windowSeconds : {1}, tokenMultiplier : {2}]

SweepWindowSeconds == {1, DefaultMaxWindowSeconds}

StatsInit == TrackerInit

DoStatsQuery ==
    /\ \E t \in Tools, c \in StatsPolicies : getEscalationMultiplier(t, c)
    /\ UNCHANGED <<routerVars, readVars, strategyVars, compressorVars, pipelineVars, promptVars, patternVars, maskingVars, detectorVars, resolverVars, swapVars, cacheVars>>

DoSweep ==
    /\ \E m \in SweepWindowSeconds : cleanup(m)
    /\ UNCHANGED <<routerVars, readVars, strategyVars, compressorVars, pipelineVars, promptVars, patternVars, maskingVars, detectorVars, resolverVars, swapVars, cacheVars>>

DoGetStats ==
    /\ getStatsCall
    /\ UNCHANGED <<routerVars, readVars, strategyVars, compressorVars, pipelineVars, promptVars, patternVars, maskingVars, detectorVars, resolverVars, swapVars, cacheVars>>

StatsNext ==
    \/ DoRecordCall
    \/ DoStatsQuery
    \/ DoSweep
    \/ DoReset
    \/ DoGetStats
    \/ DoAdvanceTime

StatsSpec == StatsInit /\ [][StatsNext]_vars

(* Two tools called in turn under one policy *)

MaxMixedCalls == 4

\* a short window and a window that covers the whole run
MixedPolicies ==
    [enabled : {TRUE}, windowSeconds : {1, MaxClockSeconds + 1}, tokenMultiplier : {2}]

MixedInit == TrackerInit

DoRecordMixedCall ==
    /\ \E t \in Tools : Len(history) < MaxMixedCalls /\ recordCallBody(t)
    /\ UNCHANGED <<routerVars, readVars, strategyVars, compressorVars, pipelineVars, promptVars, patternVars, maskingVars, detectorVars, resolverVars, swapVars, cacheVars>>

DoMixedQuery ==
    /\ \E t \in Tools, c \in MixedPolicies : getEscalationMultiplier(t, c)
    /\ UNCHANGED <<routerVars, readVars, strategyVars, compressorVars, pipelineVars, promptVars, patternVars, maskingVars, detectorVars, resolverVars, swapVars, cacheVars>>

MixedNext ==
    \/ DoRecordMixedCall
    \/ DoMixedQuery
    \/ DoAdvanceTime

MixedSpec == MixedInit /\ [][MixedNext]_vars

RouterInit ==
    /\ TrackerStart /\ RouterStart(Maskers) /\ ReadStart /\ StrategyUnused /\ CompressorStart({DefaultConfig}) /\ PipelineUnused
    /\ PromptUnused
    /\ PatternUnused
    /\ MaskingUnused
    /\ DetectorUnused
    /\ ResolverUnused
    /\ SwapUnused
    /\ CacheUnused

DoCallTool ==
    /\ \E c \in CallIds, n \in PublicNames, a \in CallerArgs : callTool(c, n, a)
    /\ UNCHANGED <<trackerVars, readVars, strategyVars, compressorVars, pipelineVars, promptVars, patternVars, maskingVars, detectorVars, resolverVars, swapVars, cacheVars>>
DoCallToolResolved ==
    /\ \E c \in CallIds, r \in UpstreamResults : callToolResolved(c, r)
    /\ UNCHANGED <<trackerVars, readVars, strategyVars, compressorVars, pipelineVars, promptVars, patternVars, maskingVars, detectorVars, resolverVars, swapVars, cacheVars>>
DoCallToolRejected ==
    /\ \E c \in CallIds, e \in UpstreamErrors : callToolRejected(c, e)
    /\ UNCHANGED <<trackerVars, readVars, strategyVars, compressorVars, pipelineVars, promptVars, patternVars, maskingVars, detectorVars, resolverVars, swapVars, cacheVars>>
DoCallerContinues ==
    /\ \E c \in CallIds : callerContinues(c)
    /\ UNCHANGED <<trackerVars, readVars, strategyVars, compressorVars, pipelineVars, promptVars, patternVars, maskingVars, detectorVars, resolverVars, swapVars, cacheVars>>

RouterNext ==
    \/ DoCallTool
    \/ DoCallToolResolved
    \/ DoCallToolRejected
    \/ DoCallerContinues

RouterSpec == RouterInit /\ [][RouterNext]_vars

ReadInit ==
    /\ TrackerStart /\ RouterStart({"none"}) /\ ReadStart /\ StrategyUnused /\ CompressorStart({DefaultConfig}) /\ PipelineUnused
    /\ PromptUnused
    /\ PatternUnused
    /\ MaskingUnused
    /\ DetectorUnused
    /\ ResolverUnused
    /\ SwapUnused
    /\ CacheUnused

DoReadResource ==
    /\ \E c \in CallIds, u \in ResourceUris : readResource(c, u)
    /\ UNCHANGED <<trackerVars, routerVars, strategyVars, compressorVars, pipelineVars, promptVars, patternVars, maskingVars, detectorVars, resolverVars, swapVars, cacheVars>>
DoGetPrompt ==
    /\ \E c \in CallIds, n \in PromptNames, a \in PromptArgs : getPrompt(c, n, a)
    /\ UNCHANGED <<trackerVars, routerVars, strategyVars, compressorVars, pipelineVars, promptVars, patternVars, maskingVars, detectorVars, resolverVars, swapVars, cacheVars>>
DoReadResolved ==
    /\ \E c \in CallIds : readResolved(c)
    /\ UNCHANGED <<trackerVars, routerVars, strategyVars, compressorVars, pipelineVars, promptVars, patternVars, maskingVars, detectorVars, resolverVars, swapVars, cacheVars>>
DoReadRejected ==
    /\ \E c \in CallIds, e \in UpstreamErrors : readRejected(c, e)
    /\ UNCHANGED <<trackerVars, routerVars, strategyVars, compressorVars, pipelineVars, promptVars, patternVars, maskingVars, detectorVars, resolverVars, swapVars, cacheVars>>
DoReaderContinues ==
    /\ \E c \in CallIds : readerContinues(c)
    /\ UNCHANGED <<trackerVars, routerVars, strategyVars, compressorVars, pipelineVars, promptVars, patternVars, maskingVars, detectorVars, resolverVars, swapVars, cacheVars>>

ReadNext ==
    \/ DoReadResource
    \/ DoGetPrompt
    \/ DoReadResolved
    \/ DoReadRejected
    \/ DoReaderContinues

ReadSpec == ReadInit /\ [][ReadNext]_vars

StrategyInit ==
    /\ TrackerStart /\ RouterStart({"none"}) /\ ReadStart
    /\ StrategyStart(ContentAnalyses) /\ CompressorStart({DefaultConfig}) /\ PipelineUnused
    /\ PromptUnused
    /\ PatternUnused
    /\ MaskingUnused
    /\ DetectorUnused
    /\ ResolverUnused
    /\ SwapUnused
    /\ CacheUnused

DoDetect ==
    /\ detect
    /\ UNCHANGED <<trackerVars, routerVars, readVars, compressorVars, pipelineVars, promptVars, patternVars, maskingVars, detectorVars, resolverVars, swapVars, cacheVars>>

StrategyNext == DoDetect

StrategySpec == StrategyInit /\ [][StrategyNext]_vars

CompressorInit ==
    /\ TrackerStart /\ RouterStart({"none"}) /\ ReadStart
    /\ StrategyUnused /\ CompressorStart(CompressionConfigs) /\ PipelineUnused
    /\ PromptUnused
    /\ PatternUnused
    /\ MaskingUnused
    /\ DetectorUnused
    /\ ResolverUnused
    /\ SwapUnused
    /\ CacheUnused

DoCompress ==
    /\ \E content \in Texts, a \in SampleAnalyses : compress(content, a)
    /\ UNCHANGED <<trackerVars, routerVars, readVars, strategyVars, pipelineVars, promptVars, patternVars, maskingVars, detectorVars, resolverVars, swapVars, cacheVars>>
DoCompressToolResult ==
    /\ \E result \in ToolResults, a \in SampleAnalyses : compressToolResult(result, a)
    /\ UNCHANGED <<trackerVars, routerVars, readVars, strategyVars, pipelineVars, promptVars, patternVars, maskingVars, detectorVars, resolverVars, swapVars, cacheVars>>
DoCompressResourceResult ==
    /\ \E result \in ResourceResults, a \in SampleAnalyses : compressResourceResult(result, a)
    /\ UNCHANGED <<trackerVars, routerVars, readVars, strategyVars, pipelineVars, promptVars, patternVars, maskingVars, detectorVars, resolverVars, swapVars, cacheVars>>
DoGenerateTextResolved ==
    /\ \E i \in 1..MaxResourceContents, text \in ModelOutputs : generateTextResolved(i, text)
    /\ UNCHANGED <<trackerVars, routerVars, readVars, strategyVars, pipelineVars, promptVars, patternVars, maskingVars, detectorVars, resolverVars, swapVars, cacheVars>>
DoGenerateTextRejected ==
    /\ \E i \in 1..MaxResourceContents, e \in ModelErrors : generateTextRejected(i, e)
    /\ UNCHANGED <<trackerVars, routerVars, readVars, strategyVars, pipelineVars, promptVars, patternVars, maskingVars, detectorVars, resolverVars, swapVars, cacheVars>>
DoCompressorContinues ==
    /\ compressorContinues
    /\ UNCHANGED <<trackerVars, routerVars, readVars, strategyVars, pipelineVars, promptVars, patternVars, maskingVars, detectorVars, resolverVars, swapVars, cacheVars>>

CompressorNext ==
    \/ DoCompress
    \/ DoCompressToolResult
    \/ DoCompressResourceResult
    \/ DoGenerateTextResolved
    \/ DoGenerateTextRejected
    \/ DoCompressorContinues

CompressorSpec == CompressorInit /\ [][CompressorNext]_vars

PromptInit ==
    /\ TrackerStart /\ RouterStart({"none"}) /\ ReadStart
    /\ StrategyUnused /\ CompressorStart({DefaultConfig}) /\ PipelineUnused
    /\ PromptStart
    /\ PatternUnused
    /\ MaskingUnused
    /\ DetectorUnused
    /\ ResolverUnused
    /\ SwapUnused
    /\ CacheUnused

DoPromptCall ==
    /\ promptCall
    /\ UNCHANGED <<trackerVars, routerVars, readVars, strategyVars, compressorVars, pipelineVars, patternVars, maskingVars, detectorVars, resolverVars, swapVars, cacheVars>>

PromptNext == DoPromptCall

PromptSpec == PromptInit /\ [][PromptNext]_vars

LibraryInit ==
    /\ TrackerStart /\ RouterStart({"none"}) /\ ReadStart
    /\ StrategyUnused /\ CompressorStart({DefaultConfig}) /\ PipelineUnused
    /\ PromptUnused /\ PatternStart
    /\ MaskingUnused
    /\ DetectorUnused
    /\ ResolverUnused
    /\ SwapUnused
    /\ CacheUnused

DoClonePattern ==
    /\ \E p \in ClonedPatterns \cup {clones[i].pattern : i \in 1..Len(clones)} :
            clonePatternCall(p)
    /\ UNCHANGED <<trackerVars, routerVars, readVars, strategyVars, compressorVars, pipelineVars, promptVars, maskingVars, detectorVars, resolverVars, swapVars, cacheVars>>

DoRegexTest ==
    /\ \E p \in ClonedPatterns \cup {clones[i].pattern : i \in 1..Len(clones)},
          input \in TestInputs : testCall(p, input)
    /\ UNCHANGED <<trackerVars, routerVars, readVars, strategyVars, compressorVars, pipelineVars, promptVars, maskingVars, detectorVars, resolverVars, swapVars, cacheVars>>

LibraryNext == DoClonePattern \/ DoRegexTest

LibrarySpec == LibraryInit /\ [][LibraryNext]_vars

SelectionInit == LibraryInit

DoGetPatternsForTypes ==
    /\ \E types \in SUBSET PIITypes : getPatternsForTypesCall(types)
    /\ UNCHANGED <<trackerVars, routerVars, readVars, strategyVars, compressorVars, pipelineVars, promptVars, maskingVars, detectorVars, resolverVars, swapVars, cacheVars>>

SelectionNext == DoGetPatternsForTypes

SelectionSpec == SelectionInit /\ [][SelectionNext]_vars

MaskingInit ==
    /\ TrackerStart /\ RouterStart({"none"}) /\ ReadStart
    /\ StrategyUnused /\ CompressorStart({DefaultConfig}) /\ PipelineUnused
    /\ PromptUnused /\ PatternUnused /\ MaskingStart
    /\ DetectorUnused
    /\ ResolverUnused
    /\ SwapUnused
    /\ CacheUnused

DoMaskToolArgs ==
    /\ maskToolArgsCall
    /\ UNCHANGED <<trackerVars, routerVars, readVars, strategyVars, compressorVars, pipelineVars, promptVars, patternVars, detectorVars, resolverVars, swapVars, cacheVars>>

MaskingNext == DoMaskToolArgs

MaskingSpec == MaskingInit /\ [][MaskingNext]_vars

DetectorInit ==
    /\ TrackerStart /\ RouterStart({"none"}) /\ ReadStart
    /\ StrategyUnused /\ CompressorStart({DefaultConfig}) /\ PipelineUnused
    /\ PromptUnused /\ PatternUnused /\ MaskingUnused /\ DetectorStart
    /\ ResolverUnused
    /\ SwapUnused
    /\ CacheUnused

DoDetectorResolved ==
    /\ \E response \in DetectorResponses : detectorResolved(response)
    /\ UNCHANGED <<trackerVars, routerVars, readVars, strategyVars, compressorVars, pipelineVars, promptVars, patternVars, maskingVars, resolverVars, swapVars, cacheVars>>

DoDetectorRejected ==
    /\ \E error \in DetectorErrors : detectorRejected(error)
    /\ UNCHANGED <<trackerVars, routerVars, readVars, strategyVars, compressorVars, pipelineVars, promptVars, patternVars, maskingVars, resolverVars, swapVars, cacheVars>>

DetectorNext == DoDetectorResolved \/ DoDetectorRejected

DetectorSpec == DetectorInit /\ [][DetectorNext]_vars

ResolverInit ==
    /\ TrackerStart /\ RouterStart({"none"}) /\ ReadStart
    /\ StrategyUnused /\ CompressorStart({DefaultConfig}) /\ PipelineUnused
    /\ PromptUnused /\ PatternUnused /\ MaskingUnused /\ DetectorUnused
    /\ ResolverStart(ResolverConfigs)
    /\ SwapUnused
    /\ CacheUnused

DoResolveCompressionPolicy ==
    /\ \E toolName \in ResolvedTools : resolveCall("resolveCompressionPolicy", toolName)
    /\ UNCHANGED <<trackerVars, routerVars, readVars, strategyVars, compressorVars, pipelineVars, promptVars, patternVars, maskingVars, detectorVars, swapVars, cacheVars>>

DoResolveMaskingPolicy ==
    /\ \E toolName \in ResolvedTools : resolveCall("resolveMaskingPolicy", toolName)
    /\ UNCHANGED <<trackerVars, routerVars, readVars, strategyVars, compressorVars, pipelineVars, promptVars, patternVars, maskingVars, detectorVars, swapVars, cacheVars>>

ResolverNext == DoResolveCompressionPolicy \/ DoResolveMaskingPolicy

ResolverSpec == ResolverInit /\ [][ResolverNext]_vars

SwapInit ==
    /\ TrackerStart /\ RouterStart({"none", "enabled"}) /\ ReadStart
    /\ StrategyUnused /\ CompressorStart({DefaultConfig}) /\ PipelineUnused
    /\ PromptUnused /\ PatternUnused /\ MaskingUnused /\ DetectorUnused
    /\ ResolverUnused /\ SwapUnused
    /\ CacheUnused

DoSetMasker ==
    /\ \E m \in {"none", "enabled"} : setMasker(m)
    /\ UNCHANGED <<trackerVars, readVars, strategyVars, compressorVars, pipelineVars, promptVars, patternVars, maskingVars, detectorVars, resolverVars, cacheVars>>

DoFirstCallerCalls ==
    /\ \E n \in PublicNames, a \in CallerArgs : callTool(1, n, a)
    /\ UNCHANGED <<trackerVars, readVars, strategyVars, compressorVars, pipelineVars, promptVars, patternVars, maskingVars, detectorVars, resolverVars, swapVars, cacheVars>>

SwapNext ==
    \/ DoSetMasker
    \/ DoFirstCallerCalls
    \/ DoCallToolResolved
    \/ DoCallToolRejected
    \/ DoCallerContinues

SwapSpec == SwapInit /\ [][SwapNext]_vars

CacheInit ==
    /\ TrackerStart /\ RouterStart({"none"}) /\ ReadStart
    /\ StrategyUnused /\ CompressorStart({DefaultConfig}) /\ PipelineUnused
    /\ PromptUnused /\ PatternUnused /\ MaskingUnused /\ DetectorUnused
    /\ ResolverUnused /\ SwapUnused /\ CacheStart

DoCompressNoted ==
    /\ \E content \in CachedContents, a \in {[parsesAsJson |-> TRUE, matches |-> {}]} :
            compressNoted(content, a)
    /\ UNCHANGED <<trackerVars, routerVars, readVars, strategyVars, pipelineVars, promptVars, patternVars, maskingVars, detectorVars, resolverVars, swapVars>>

DoGenerateTextResolvedNoted ==
    /\ \E text \in ModelOutputs : generateTextResolvedNoted(text)
    /\ UNCHANGED <<trackerVars, routerVars, readVars, strategyVars, pipelineVars, promptVars, patternVars, maskingVars, detectorVars, resolverVars, swapVars>>

CacheNext ==
    \/ DoCompressNoted
    \/ DoGenerateTextResolvedNoted
    \/ DoGenerateTextRejected
    \/ DoCompressorContinues
    \/ DoAdvanceTime

CacheSpec == CacheInit /\ [][CacheNext]_vars

PipelineInit ==
    /\ TrackerStart /\ RouterStart({"none"}) /\ ReadStart
    /\ StrategyUnused /\ CompressorStart({DefaultConfig})
    /\ PipelineStart(RetryEscalationConfig)
    /\ PromptUnused
    /\ PatternUnused
    /\ MaskingUnused
    /\ DetectorUnused
    /\ ResolverUnused
    /\ SwapUnused
    /\ CacheUnused

DoCompressWithEscalation ==
    /\ \E t \in Tools, content \in PipelineContents, a \in {EmptyString} :
          compressWithEscalation(t, content, a)
    /\ UNCHANGED <<routerVars, readVars, strategyVars, promptVars, patternVars, maskingVars, detectorVars, resolverVars, swapVars, cacheVars>>
DoModelAnswers ==
    /\ \E text \in ModelOutputs : generateTextResolved(1, text)
    /\ UNCHANGED <<trackerVars, routerVars, readVars, strategyVars, pipelineVars, promptVars, patternVars, maskingVars, detectorVars, resolverVars, swapVars, cacheVars>>
DoModelFails ==
    /\ \E e \in ModelErrors : generateTextRejected(1, e)
    /\ UNCHANGED <<trackerVars, routerVars, readVars, strategyVars, pipelineVars, promptVars, patternVars, maskingVars, detectorVars, resolverVars, swapVars, cacheVars>>
DoToolCallDone ==
    /\ toolCallDone
    /\ UNCHANGED <<trackerVars, routerVars, readVars, strategyVars, promptVars, patternVars, maskingVars, detectorVars, resolverVars, swapVars, cacheVars>>
DoClockAdvances ==
    /\ \E ms \in AdvanceSteps : advanceTime(ms)
    /\ UNCHANGED <<routerVars, readVars, strategyVars, compressorVars, pipelineVars, promptVars, patternVars, maskingVars, detectorVars, resolverVars, swapVars, cacheVars>>

PipelineNext ==
    \/ DoCompressWithEscalation
    \/ DoModelAnswers
    \/ DoModelFails
    \/ DoToolCallDone
    \/ DoClockAdvances

PipelineSpec == PipelineInit /\ [][PipelineNext]_vars

-----------------------------------------------------------------------------
(* Properties of the RetryTracker *)

\* the timestamps recordCall was given for toolName, in call order
RecordedTimestamps(toolName) ==
    LET h == SelectSeq(history, LAMBDA e : e.tool = toolName)
    IN  [i \in 1..Len(h) |-> h[i].ts]

\* how many recorded calls of toolName are newer than cutoff
RecordedSince(toolName, cutoff) ==
    Cardinality({i \in 1..Len(history) : history[i].tool = toolName /\ history[i].ts > cutoff})

LastWasEnabledGet == lastCall.op = "getEscalationMultiplier" /\ lastCall.enabled

\* C2: with escalation enabled, getEscalationMultiplier(tool, policy) returns 1
\* when 0 or 1 recorded calls of the tool lie inside the window and otherwise
\* 1 + (tokenMultiplier - 1) * (callCount - 1), callCount being the number of
\* the tool's recorded calls inside the window.  Checked for every query whose
\* window no earlier prune has cut into, which covers every query preceded by
\* recordCall and clock advances only.
C2_LinearEscalation ==
    (LastWasEnabledGet /\ floor[lastCall.tool] = lastCall.cutoff) =>
        LET callCount == RecordedSince(lastCall.tool, lastCall.cutoff)
        IN  lastCall.value = IF callCount <= 1
                             THEN 1
                             ELSE 1 + (lastCall.tokenMultiplier - 1) * (callCount - 1)

\* the third call inside the window with tokenMultiplier = 3 yields 5
C2_Witness ==
    /\ LastWasEnabledGet
    /\ floor[lastCall.tool] = lastCall.cutoff
    /\ lastCall.tokenMultiplier = 3
    /\ RecordedSince(lastCall.tool, lastCall.cutoff) = 3
    /\ lastCall.value = 5

\* C7: a recorded call stops counting once the window has elapsed: whatever
\* happened before, the multiplier is 1 when at most one recorded call of the
\* tool is younger than windowSeconds, it never exceeds the linear value of the
\* number of recorded calls younger than windowSeconds, and after the query no
\* stored timestamp of the tool is as old as the window.
C7_ExpiredCallsDoNotCount ==
    LastWasEnabledGet =>
        LET young == RecordedSince(lastCall.tool, lastCall.cutoff)
            stored == MapGetOrEmpty(calls, lastCall.tool)
        IN  /\ young <= 1 => lastCall.value = 1
            /\ young >= 1 => lastCall.value <= 1 + (lastCall.tokenMultiplier - 1) * (young - 1)
            /\ \A i \in 1..Len(stored) : now - stored[i] < lastCall.windowSeconds * MsPerSecond

\* calls recorded, the window elapsed, one new call recorded: the multiplier is 1
C7_Witness ==
    /\ LastWasEnabledGet
    /\ floor[lastCall.tool] = lastCall.cutoff
    /\ Len(RecordedTimestamps(lastCall.tool)) >= 2
    /\ RecordedSince(lastCall.tool, lastCall.cutoff) = 1
    /\ lastCall.value = 1

\* C8 as stated: cleanup with any maxWindowSeconds leaves the value of every
\* later getEscalationMultiplier unchanged (the tracker that never ran cleanup
\* returns the same value).
C8_CleanupNeverAffects ==
    lastCall.op = "getEscalationMultiplier" => lastCall.value = lastCall.valueNC

\* C8 amended: cleanup(maxWindowSeconds) leaves unchanged the value of every
\* later getEscalationMultiplier whose windowSeconds is at most maxWindowSeconds.
C8_CleanupWithCoveringWindow ==
    (/\ lastCall.op = "getEscalationMultiplier"
     /\ \A m \in cleanupWindows : lastCall.windowSeconds <= m)
        => lastCall.value = lastCall.valueNC

\* a cleanup that removed timestamps, then a query with an escalated value
C8_Witness ==
    /\ LastWasEnabledGet
    /\ cleanupWindows # {}
    /\ \A m \in cleanupWindows : lastCall.windowSeconds <= m
    /\ calls # callsNC
    /\ lastCall.value >= 2

\* C9: no recorded timestamp is lost: the stored timestamps of a tool are
\* exactly the recorded ones, in call order, that no prune has cut off, so n
\* recordCall invocations without expiry, cleanup or reset leave n timestamps.
C9_NoLostTimestamp ==
    \A t \in Tools :
        MapGetOrEmpty(calls, t) = SelectSeq(RecordedTimestamps(t), LAMBDA ts : ts > floor[t])

\* two recordCall invocations for the same tool in the same millisecond, both stored
C9_Witness ==
    \E t \in Tools :
        /\ Len(MapGetOrEmpty(calls, t)) >= 2
        /\ MapGetOrEmpty(calls, t)[1] = MapGetOrEmpty(calls, t)[2]
        /\ Len(MapGetOrEmpty(calls, t)) = Len(RecordedTimestamps(t))

-----------------------------------------------------------------------------
(* Properties of the Router *)

Started(c) == inflight[c].pc # "idle"

\* the failure description of each upstream rejection
FailureDescription(error) ==
    CASE error = [isErrorInstance |-> TRUE, message |-> "Connection timeout"] -> "Connection timeout"
      [] error = [isErrorInstance |-> FALSE, value |-> Str("String error")] -> "String error"
      [] error = [isErrorInstance |-> FALSE, value |-> Num(42)] -> "42"

\* the error-flagged result with one text part
ErrorResultWithText(text) ==
    [kind |-> "return",
     result |-> [content |-> <<[type |-> "text", text |-> text]>>, isError |-> TRUE]]

\* step 1 of the tool-call pipeline: the arguments without the control fields
WithoutControlFields(args) == [k \in (DOMAIN args) \ {GoalField, BypassField} |-> args[k]]

\* step 3 of the tool-call pipeline: the overrides laid over the arguments
WithOverrides(args, overrides) ==
    [k \in (DOMAIN args) \cup (DOMAIN overrides) |->
        IF k \in DOMAIN overrides THEN overrides[k] ELSE args[k]]

\* C1: callTool never throws because of an upstream failure: when the
\* connection's callTool rejects with an Error or any other value, callTool
\* returns a result flagged isError whose single text part is
\* 'Error calling tool: ' followed by the failure description.
C1_UpstreamFailureIsErrorResult ==
    \A c \in CallIds :
        /\ inflight[c].outcome.kind # "throw"
        /\ inflight[c].settled.kind = "rejected" =>
              inflight[c].outcome =
                  ErrorResultWithText("Error calling tool: " \o
                                      FailureDescription(inflight[c].settled.error))

\* an upstream rejected with the number 42 and callTool returned the error result
C1_Witness ==
    \E c \in CallIds :
        /\ inflight[c].pc = "returned"
        /\ inflight[c].settled = [kind |-> "rejected",
                                  error |-> [isErrorInstance |-> FALSE, value |-> Num(42)]]
        /\ inflight[c].outcome.kind = "return"
        /\ inflight[c].outcome.result.isError

\* C3: callTool on a hidden tool returns the isError result
\* "Error: Tool '<publicName>' not found", and during the call neither
\* findTool nor any upstream callTool is invoked.
C3_HiddenToolIsNotFound ==
    \A c \in CallIds :
        (Started(c) /\ isToolHidden(inflight[c].name)) =>
            /\ inflight[c].findToolCalls = 0
            /\ inflight[c].upstreamCalls = <<>>
            /\ inflight[c].pc = "returned"
            /\ inflight[c].outcome =
                  ErrorResultWithText("Error: Tool '" \o inflight[c].name \o "' not found")

\* C4: the arguments forwarded upstream contain neither the goal field nor the
\* bypass field, whatever the types of the values supplied for them.
C4_ControlFieldsStripped ==
    \A c \in CallIds :
        \A i \in 1..Len(inflight[c].upstreamCalls) :
            {GoalField, BypassField} \cap DOMAIN inflight[c].upstreamCalls[i].args = {}

\* C5: every key of the tool's parameter-override map is forwarded upstream
\* with the override value; the caller's other keys are forwarded with the
\* caller's value.
C5_OverridesAlwaysWin ==
    \A c \in CallIds :
        \A i \in 1..Len(inflight[c].upstreamCalls) :
            LET overrides == getParameterOverrides(inflight[c].name)
                supplied == WithoutControlFields(inflight[c].args)
                forwarded == inflight[c].upstreamCalls[i].args
            IN  /\ \A k \in DOMAIN overrides :
                      k \in DOMAIN forwarded /\ forwarded[k] = overrides[k]
                /\ \A k \in (DOMAIN supplied) \ (DOMAIN overrides) :
                      k \in DOMAIN forwarded /\ forwarded[k] = supplied[k]

\* C6: with a masker attached and enabled, maskToolArgs receives the arguments
\* after control-field stripping and after the overrides, and the upstream
\* receives exactly the masked arguments the masker returned.
C6_StripOverrideMaskDispatch ==
    masker = "enabled" =>
        \A c \in CallIds :
            inflight[c].upstreamCalls # <<>> =>
                LET prepared == WithOverrides(WithoutControlFields(inflight[c].args),
                                              getParameterOverrides(inflight[c].name))
                IN  /\ inflight[c].maskCalls = <<prepared>>
                    /\ Len(inflight[c].upstreamCalls) = 1
                    /\ inflight[c].upstreamCalls[1].args = maskToolArgs(prepared)

\* C10: when findTool does not resolve the public name, callTool returns the
\* isError result "Error: Tool '<publicName>' not found" with the name
\* verbatim, and no upstream callTool is invoked.
C10_UnresolvedNameIsNotFound ==
    \A c \in CallIds :
        (Started(c) /\ ~findTool(inflight[c].name).found) =>
            /\ inflight[c].upstreamCalls = <<>>
            /\ inflight[c].pc = "returned"
            /\ inflight[c].outcome =
                  ErrorResultWithText("Error: Tool '" \o inflight[c].name \o "' not found")

\* a call of nonexistent__tool returned the not-found result
C10_Witness ==
    \E c \in CallIds :
        /\ inflight[c].pc = "returned"
        /\ inflight[c].name = "nonexistent__tool"
        /\ inflight[c].outcome.result.content[1].text = "Error: Tool 'nonexistent__tool' not found"
        /\ inflight[c].outcome.result.isError

-----------------------------------------------------------------------------
(* Properties of Router.callTool's returned value and routing *)

\* step 1 of the tool-call pipeline: the goal (a string, else absent) and the
\* bypass flag (true only for the boolean true) taken from the arguments
ExtractedControl(args) ==
    [goal |-> IF GoalField \in DOMAIN args /\ args[GoalField].type = "string"
              THEN args[GoalField] ELSE Undefined,
     bypass |-> (BypassField \in DOMAIN args /\ args[BypassField] = Bool(TRUE))]

\* C11: every outcome of callTool returns, next to the result, the goal and
\* bypass values extracted from the call's arguments and, when an enabled
\* masker masked the arguments, that masker's restoration map.
C11_OutcomeCarriesGoalBypassRestoration ==
    \A c \in CallIds :
        inflight[c].pc = "returned" =>
            LET returned == inflight[c].outcome.result
                control == ExtractedControl(inflight[c].args)
                prepared == WithOverrides(WithoutControlFields(inflight[c].args),
                                          getParameterOverrides(inflight[c].name))
            IN  /\ inflight[c].outcome.kind = "return"
                /\ {"result", "goal", "bypass"} \subseteq DOMAIN returned
                /\ returned.goal = control.goal
                /\ returned.bypass = control.bypass
                /\ (masker = "enabled" /\ maskToolArgs(prepared) # prepared) =>
                       "restorationMap" \in DOMAIN returned

\* C16: callTool invokes only the connection the public name resolves to, with
\* that connection's original name: fs__read_file reaches only fs's read_file
\* and gh__read_file reaches only gh's read_file.
C16_NoCrossRouting ==
    \A c \in CallIds :
        \A i \in 1..Len(inflight[c].upstreamCalls) :
            LET call == inflight[c].upstreamCalls[i]
            IN  /\ Len(inflight[c].upstreamCalls) = 1
                /\ inflight[c].name = "fs__read_file" =>
                       (call.client = "fs" /\ call.name = "read_file")
                /\ inflight[c].name = "gh__read_file" =>
                       (call.client = "gh" /\ call.name = "read_file")
                /\ \A n \in DOMAIN Catalog :
                       inflight[c].name = n =>
                           (call.client = Catalog[n].client /\ call.name = Catalog[n].originalName)

\* two callers awaiting fs__read_file and gh__read_file at the same time
C16_Witness ==
    \E c, d \in CallIds :
        /\ inflight[c].pc = "awaiting" /\ inflight[c].name = "fs__read_file"
        /\ inflight[d].pc = "awaiting" /\ inflight[d].name = "gh__read_file"
        /\ inflight[c].upstreamCalls[1].client = "fs"
        /\ inflight[d].upstreamCalls[1].client = "gh"

-----------------------------------------------------------------------------
(* Properties of Router.readResource and Router.getPrompt *)

\* the rejection message of each method for an unresolved target
NotFoundMessage(method, target) ==
    IF method = "readResource"
    THEN "Resource '" \o target \o "' not found"
    ELSE "Prompt '" \o target \o "' not found"

\* the resolution of a read's target by its method
Resolution(method, target) ==
    IF method = "readResource" THEN findResource(target) ELSE findPrompt(target)

\* C12: readResource and getPrompt throw "Resource '<uri>' not found" or
\* "Prompt '<name>' not found" for an unresolved target without invoking an
\* upstream, re-throw an upstream failure unchanged, and on success call the
\* upstream with the original URI or name and return its result unchanged.
C12_ReadsRejectOrPassThrough ==
    \A c \in CallIds :
        LET r == reads[c]
            routing == Resolution(r.method, r.target)
        IN  r.pc # "idle" =>
              /\ ~routing.found =>
                    /\ r.upstreamCalls = <<>>
                    /\ r.outcome = [kind |-> "throw",
                                    error |-> [isErrorInstance |-> TRUE,
                                               message |-> NotFoundMessage(r.method, r.target)]]
              /\ routing.found =>
                    /\ r.upstreamCalls = <<[client |-> routing.client, method |-> r.method,
                                            target |-> routing.original, args |-> r.args]>>
                    /\ r.settled.kind = "rejected" =>
                          r.outcome = [kind |-> "throw", error |-> r.settled.error]
                    /\ r.settled.kind = "resolved" =>
                          r.outcome = [kind |-> "return", result |-> r.settled.result]

\* one caller saw an upstream failure re-thrown while another got the
\* not-found rejection
C12_Witness ==
    \E c, d \in CallIds :
        /\ reads[c].method = "getPrompt"
        /\ reads[c].settled = [kind |-> "rejected",
                               error |-> [isErrorInstance |-> FALSE, value |-> Str("String error")]]
        /\ reads[c].outcome.kind = "throw"
        /\ reads[d].method = "readResource"
        /\ reads[d].outcome = [kind |-> "throw",
                               error |-> [isErrorInstance |-> TRUE,
                                          message |-> "Resource 'server1://nonexistent' not found"]]

-----------------------------------------------------------------------------
(* Properties of detectStrategy *)

-----------------------------------------------------------------------------
(* Properties of the Compressor *)

\* the method in progress has returned or thrown
Settled(entry) == job.entry = entry /\ job.pc = "settled"

\* the compress call made by the method in progress returned a compression
Compressed(i) ==
    /\ i \in 1..Len(job.slots)
    /\ job.slots[i].state = "returned"
    /\ job.slots[i].result.wasCompressed

\* the positions of a content sequence that hold text parts
TextPositions(content) == {i \in 1..Len(content) : content[i].type = "text"}

\* the parts of a content sequence that are not text, in order
NonTextParts(content) == SelectSeq(content, LAMBDA c : c.type # "text")

\* "[Compressed from X to Y tokens]"
Marker(originalTokens, compressedTokens) ==
    "[Compressed from " \o NumberToString(originalTokens) \o " to "
        \o NumberToString(compressedTokens) \o " tokens]"

\* the text opens with a compression marker
Marked(text) ==
    /\ Len(text) > 0
    /\ \E x, y \in 0..(2 * MaxParts * (MaxTextTokens + 2)) : text[1] = Marker(x, y)

\* C13: when the content's token count is at most the threshold, equality
\* included, compress invokes the compression model zero times and returns
\* wasCompressed = false, compressed identical to the original and
\* compressedTokens = originalTokens.
C13_AtOrBelowThresholdUntouched ==
    (job.entry = "compress" /\ ~encodeThrows(job.input)
        /\ Len(job.input) <= compressionConfig.tokenThreshold) =>
            /\ job.modelCalls = <<>>
            /\ job.pc = "settled"
            /\ job.outcome.kind = "return"
            /\ ~job.outcome.result.wasCompressed
            /\ job.outcome.result.compressed = job.input
            /\ job.outcome.result.originalTokens = Len(job.input)
            /\ job.outcome.result.compressedTokens = job.outcome.result.originalTokens

\* compress returned a text of exactly tokenThreshold tokens as it was
C13_Witness ==
    /\ Settled("compress")
    /\ job.input = <<"a", "a", "a">>
    /\ compressionConfig.tokenThreshold = 3
    /\ job.modelCalls = <<>>
    /\ ~job.outcome.result.wasCompressed

\* C14: when the compression model call fails, compress returns the original
\* content with wasCompressed = false, and compressToolResult and
\* compressResourceResult return the upstream result unchanged.
C14_ModelFailureFallsBackToOriginal ==
    /\ \A i \in 1..Len(job.slots) :
          job.slots[i].settled.kind = "rejected" =>
              /\ job.slots[i].result.compressed = job.slots[i].content
              /\ job.slots[i].result.original = job.slots[i].content
              /\ ~job.slots[i].result.wasCompressed
    /\ (Settled("compress") /\ job.slots[1].settled.kind = "rejected") =>
          /\ job.outcome.kind = "return"
          /\ job.outcome.result.compressed = job.input
          /\ ~job.outcome.result.wasCompressed
    /\ (Settled("compressToolResult") /\ job.slots # <<>>
            /\ job.slots[1].settled.kind = "rejected") =>
          job.outcome = [kind |-> "return", result |-> job.input]
    /\ (Settled("compressResourceResult") /\ ~\E i \in 1..Len(job.slots) : job.slots[i].state = "threw") =>
          /\ job.outcome.kind = "return"
          /\ \A i \in 1..Len(job.slots) :
                job.slots[i].settled.kind = "rejected" =>
                    job.outcome.result.contents[i] = job.input.contents[i]
          /\ (\A i \in 1..Len(job.slots) : job.slots[i].settled.kind # "resolved") =>
                job.outcome.result = job.input

\* the model failed on a tool result with two text parts around an image
C14_Witness ==
    /\ Settled("compressToolResult")
    /\ job.input.content = <<TextPart(<<"a">>), ImagePart, TextPart(<<"a", "a">>)>>
    /\ Len(job.modelCalls) = 1
    /\ job.slots[1].settled = [kind |-> "rejected",
                               error |-> [isErrorInstance |-> TRUE, message |-> "API error"]]
    /\ job.outcome.result = job.input

\* C18: a tokenizer failure does not abort a compression: compress,
\* compressToolResult and compressResourceResult complete normally.
C18_TokenizerFailureFallsBack ==
    job.pc = "settled" => job.outcome.kind = "return"

C20_CompressedResultsAreMarked ==
    /\ (Settled("compressToolResult") /\ job.outcome.kind = "return") =>
          \A i \in TextPositions(job.outcome.result.content) :
              LET text == job.outcome.result.content[i].text
              IN  IF Compressed(1)
                  THEN /\ Len(text) > 0
                       /\ text[1] = Marker(job.slots[1].result.originalTokens,
                                           job.slots[1].result.compressedTokens)
                  ELSE ~Marked(text)
    /\ (Settled("compressResourceResult") /\ job.outcome.kind = "return") =>
          \A i \in 1..Len(job.outcome.result.contents) :
              hasText(job.outcome.result.contents[i]) =>
                  LET text == job.outcome.result.contents[i].text
                  IN  IF Compressed(i)
                      THEN /\ Len(text) > 0
                           /\ text[1] = Marker(job.slots[i].result.originalTokens,
                                               job.slots[i].result.compressedTokens)
                      ELSE ~Marked(text)

-----------------------------------------------------------------------------
(* Properties of retry escalation in the pipeline *)

\* the calls of the tool recorded up to and including this tool call that lie
\* inside the retry window at the time of the call
CallsInWindow ==
    {i \in 1..toolCall.position :
        /\ history[i].tool = toolCall.tool
        /\ history[i].ts > toolCall.at - toolCall.retry.windowSeconds * MsPerSecond}

-----------------------------------------------------------------------------
(* Properties of the window bound and of lazy pruning *)

\* the recorded calls of toolName whose age at time t is below windowSeconds
YoungerThanWindow(toolName, windowSeconds, t) ==
    {i \in 1..Len(history) :
        /\ history[i].tool = toolName
        /\ t - history[i].ts < windowSeconds * MsPerSecond}

\* 1 for at most one call, else 1 + (tokenMultiplier - 1) * (callCount - 1)
Linear(tokenMultiplier, callCount) ==
    IF callCount <= 1 THEN 1 ELSE 1 + (tokenMultiplier - 1) * (callCount - 1)

\* C29: the window bound is strict: a recorded call counts exactly while its
\* age is below windowSeconds; a call exactly windowSeconds old does not
\* count and a call 1 ms younger does.
C29_WindowBoundIsStrict ==
    LastWasEnabledGet =>
        LET counted == YoungerThanWindow(lastCall.tool, lastCall.windowSeconds, now)
        IN  /\ lastCall.value = Linear(lastCall.tokenMultiplier, Cardinality(counted))
            /\ \A i \in 1..Len(history) :
                  history[i].ts = now - lastCall.windowSeconds * MsPerSecond => i \notin counted
            /\ \A i \in 1..Len(history) :
                  history[i].ts = now - lastCall.windowSeconds * MsPerSecond + 1 => i \in counted

\* calls exactly windowSeconds old, 1 ms younger and fresh: the multiplier is 2
C29_Witness ==
    /\ LastWasEnabledGet
    /\ \E i, j, k \in 1..Len(history) :
          /\ history[i].ts = now - lastCall.windowSeconds * MsPerSecond
          /\ history[j].ts = now - lastCall.windowSeconds * MsPerSecond + 1
          /\ history[k].ts = now
    /\ lastCall.value = 2

\* C30: when every query uses the same windowSeconds and every cleanup a
\* maxWindowSeconds at least as large, getEscalationMultiplier depends only on
\* the number of recordCall events of the tool newer than now - windowSeconds,
\* however many queries and cleanups came before.
C30_LazyPruningIsTransparent ==
    LastWasEnabledGet =>
        lastCall.value = Linear(lastCall.tokenMultiplier,
                                RecordedSince(lastCall.tool, lastCall.cutoff))

\* a query after earlier queries and cleanups removed timestamps, value above 1
C30_Witness ==
    /\ LastWasEnabledGet
    /\ cleanupWindows # {}
    /\ Len(MapGetOrEmpty(calls, lastCall.tool)) < Len(RecordedTimestamps(lastCall.tool))
    /\ floor[lastCall.tool] = lastCall.cutoff
    /\ lastCall.value >= 2

-----------------------------------------------------------------------------
(* Properties of the compression prompts *)

\* prompt.indexOf of a block's opening tag: the first block with the tag, 0 if none
IndexOf(prompt, tag) ==
    IF \E i \in 1..Len(prompt) : prompt[i].tag = tag
    THEN CHOOSE i \in 1..Len(prompt) :
            /\ prompt[i].tag = tag
            /\ \A k \in 1..(i - 1) : prompt[k].tag # tag
    ELSE 0

\* C22: in every goal-focused prompt (json, code, default) the goal block
\* comes after the task block and is the last block of the prompt.
C22_GoalAfterTask ==
    (prompted.pc = "returned" /\ prompted.goal # "") =>
        /\ IndexOf(prompted.prompt, "goal") > IndexOf(prompted.prompt, "task")
        /\ IndexOf(prompted.prompt, "goal") = Len(prompted.prompt)

-----------------------------------------------------------------------------
(* Properties of the pattern library *)

\* C24: clonePattern yields an independent copy: same type, replacement,
\* confidence, regex source and flags; a distinct RegExp whose lastIndex is 0
\* when it is made; and a test on one RegExp leaves the lastIndex of every
\* other RegExp, the original's and the clones' alike, as it was.
C24_CloneIsIndependent ==
    /\ \A i \in 1..Len(clones) :
        LET c == clones[i].pattern
            o == clones[i].of
        IN  /\ c.type = o.type
            /\ c.replacement = o.replacement
            /\ c.confidence = o.confidence
            /\ regexes[c.regex].source = regexes[o.regex].source
            /\ regexes[c.regex].flags = regexes[o.regex].flags
            /\ c.regex # o.regex
    /\ libCall.op = "clonePattern" => regexes[libCall.regex].lastIndex = 0
    /\ libCall.op = "test" =>
        \A r \in 1..Len(regexes) :
            r # libCall.regex => regexes[r].lastIndex = libCall.before[r]

\* a clone made of a pattern whose RegExp had advanced, then advanced itself by
\* a test while the original stayed where it was
C24_Witness ==
    /\ Len(clones) >= 1
    /\ libCall.op = "test"
    /\ libCall.regex = clones[1].pattern.regex
    /\ regexes[libCall.regex].lastIndex # libCall.before[libCall.regex]
    /\ regexes[clones[1].of.regex].lastIndex # 0
    /\ regexes[clones[1].of.regex].lastIndex # regexes[libCall.regex].lastIndex

Rank(confidence) ==
    CASE confidence = "high" -> 1
      [] confidence = "medium" -> 2
      [] confidence = "low" -> 3

\* the lists the claim speaks of: the declared list and the list returned
PatternLists ==
    {BUILTIN_PATTERNS} \cup
    (IF libCall.op = "getPatternsForTypes" THEN {libCall.patterns} ELSE {})

\* C25 as stated: in the pattern list and in every list getPatternsForTypes
\* returns, every high-confidence pattern precedes every medium-confidence
\* one and every medium-confidence pattern precedes every low-confidence one.
C25_OrderedByConfidence ==
    libCall.op = "getPatternsForTypes" =>
        \A list \in PatternLists :
            \A i, j \in 1..Len(list) :
                i < j => Rank(list[i].confidence) <= Rank(list[j].confidence)

\* C25 amended: the list returned holds exactly the patterns of the types
\* asked for, in their declared order, and in every list every
\* high-confidence and every medium-confidence pattern precedes every
\* low-confidence one (high and medium are interleaved).
C25_LowConfidenceLast ==
    /\ \A list \in PatternLists :
        \A i, j \in 1..Len(list) :
            (list[i].confidence # "low" /\ list[j].confidence = "low") => i < j
    /\ libCall.op = "getPatternsForTypes" =>
        /\ \A i, j \in 1..Len(libCall.patterns) :
                i < j => libCall.patterns[i].regex < libCall.patterns[j].regex
        /\ {libCall.patterns[i] : i \in 1..Len(libCall.patterns)} =
                {BUILTIN_PATTERNS[k] : k \in {n \in 1..Len(BUILTIN_PATTERNS) :
                                                BUILTIN_PATTERNS[n].type \in libCall.types}}

\* a list returned with a medium-confidence pattern ahead of a high-confidence
\* one and a low-confidence pattern at its end
C25_Witness ==
    /\ libCall.op = "getPatternsForTypes"
    /\ \E i, j, k \in 1..Len(libCall.patterns) :
        /\ i < j /\ j < k
        /\ libCall.patterns[i].confidence = "medium"
        /\ libCall.patterns[j].confidence = "high"
        /\ libCall.patterns[k].confidence = "low"

-----------------------------------------------------------------------------
(* Properties of the Masker *)

\* C23: masking is reversible: every match is replaced by a placeholder of
\* its own, the restoration map maps every placeholder generated to exactly
\* the substring it replaced, and putting the map's values back in place of
\* the placeholders in the masked arguments gives the original arguments.
C23_MaskingIsReversible ==
    masking.pc = "returned" =>
        LET r == masking.result
        IN  /\ \A a, b \in r.maskedFields : a.placeholder = b.placeholder => a = b
            /\ DOMAIN r.restorationMap = {m.placeholder : m \in r.maskedFields}
            /\ \A m \in r.maskedFields :
                /\ r.restorationMap[m.placeholder] = m.originalValue
                /\ r.masked[m.path[1]][m.path[2]] = m.placeholder
                /\ masking.args[m.path[1]][m.path[2]] = m.originalValue
            /\ restore(r.masked, r.restorationMap) = masking.args

\* two different email addresses and a repeated one, all masked
C23_Witness ==
    /\ masking.pc = "returned"
    /\ \E a, b, c \in masking.result.maskedFields :
        /\ a.piiType = "email" /\ b.piiType = "email"
        /\ a.originalValue # b.originalValue
        /\ c # a /\ c.originalValue = a.originalValue

-----------------------------------------------------------------------------
(* Properties of the LLM detector *)

\* the verdict the detector read, when the response holds a JSON object
Verdict == detection.response[firstObject(detection.response)]

\* the response is a model error, empty, or without any JSON object
NothingParsed == detection.rejected \/ firstObject(detection.response) = 0

OmitsAField ==
    /\ ~NothingParsed
    /\ Verdict.hasPII = {} \/ Verdict.detectedTypes = {} \/ Verdict.maskedText = {}

\* C26 as stated: detectAndMask never throws, and on a model error, an empty
\* or unparseable response, or a verdict with omitted fields it returns
\* hasPII = false, detectedTypes = [] and the input text.
C26_FailsOpenOnAnyOmission ==
    detection.pc = "returned" =>
        /\ ~detection.threw
        /\ (NothingParsed \/ OmitsAField) => detection.result = failOpen(detection.text)

\* C26 amended: detectAndMask never throws; on a model error, an empty or
\* unparseable response it returns hasPII = false, detectedTypes = [] and the
\* input text; in a verdict with omitted fields every omitted field takes
\* that default and every field present is kept.
C26_FailsOpenFieldByField ==
    detection.pc = "returned" =>
        /\ ~detection.threw
        /\ NothingParsed => detection.result = failOpen(detection.text)
        /\ ~NothingParsed =>
            /\ detection.result.hasPII = (TRUE \in Verdict.hasPII)
            /\ Verdict.detectedTypes = {} => detection.result.detectedTypes = << >>
            /\ Verdict.detectedTypes # {} => detection.result.detectedTypes \in Verdict.detectedTypes
            /\ Verdict.maskedText = {} => detection.result.maskedText = detection.text
            /\ Verdict.maskedText # {} => detection.result.maskedText \in Verdict.maskedText

\* the verdict { hasPII: true } alone, after some prose
C26_Witness ==
    /\ detection.pc = "returned"
    /\ OmitsAField
    /\ firstObject(detection.response) > 1
    /\ Verdict.hasPII = {TRUE}
    /\ Verdict.detectedTypes = {} /\ Verdict.maskedText = {}
    /\ detection.result.maskedText = detection.text

-----------------------------------------------------------------------------
(* Properties of the policy resolver *)

\* the global default the resolution in `resolution` started from, as a set
GlobalOf ==
    IF resolution.op = "resolveCompressionPolicy"
    THEN {resolverConfig.compression} ELSE resolverConfig.masking

\* the tool-specific overrides that apply to the resolution, as a set
OverridesOf ==
    IF resolution.toolName # ConfiguredTool THEN {}
    ELSE UNION {IF resolution.op = "resolveCompressionPolicy" THEN e.compression ELSE e.masking :
                    e \in resolverConfig.tool}

\* C27: the resolved policy has, field by field, the tool override's value
\* where the override defines the field and the global default's value
\* otherwise; a tool without a tool-specific entry resolves to the global
\* default unchanged; masking resolves to disabled when there is no masking
\* configuration at all.
C27_FieldWiseMerge ==
    resolution.op # "none" =>
        /\ \A o \in OverridesOf : \A f \in DOMAIN o :
                o[f] # {} => resolution.policy[f] \in o[f]
        /\ \A g \in GlobalOf : \A f \in DOMAIN g :
                (\A o \in OverridesOf : o[f] = {}) => resolution.policy[f] = g[f]
        /\ \A g \in GlobalOf : OverridesOf = {} => resolution.policy = g
        /\ (resolution.op = "resolveMaskingPolicy" /\ GlobalOf = {} /\ OverridesOf = {}) =>
                resolution.policy.enabled = FALSE

\* an override of piiTypes alone, merged with an enabled global masking policy
C27_Witness ==
    /\ resolution.op = "resolveMaskingPolicy"
    /\ \E o \in OverridesOf : o.enabled = {} /\ o.piiTypes # {}
    /\ \E g \in GlobalOf : g.enabled
    /\ resolution.policy = [enabled |-> TRUE, piiTypes |-> {"phone"}]

-----------------------------------------------------------------------------
(* Properties of Router.setMasker *)

\* C28: setMasker returns, and every callTool started after setMasker(m2) and
\* past the lookup uses m2 and no other masker; after setMasker(undefined) it
\* invokes no masker and forwards the arguments as given.
C28_CallsUseTheSwappedMasker ==
    swap.called =>
        /\ ~swap.threw
        /\ \A c \in CallIds \ swap.busy :
            (inflight[c].pc # "idle" /\ findTool(inflight[c].name).found) =>
                IF swap.requested = "none"
                THEN /\ inflight[c].maskCalls = << >>
                     /\ inflight[c].upstreamCalls[1].args = inflight[c].args
                ELSE inflight[c].maskCalls = << swap.requested >>

-----------------------------------------------------------------------------
(* Properties of the compression cache *)

\* C21: a compress of the same content and target-token budget as an earlier
\* completed compression, started within the TTL, invokes the model zero
\* times and returns the earlier artifact; started after the TTL it invokes
\* the model again.
C21_RepeatWithinTtlSkipsTheModel ==
    (job.entry = "compress" /\ job.pc # "idle") =>
        /\ cached.lookup.hit =>
            /\ job.modelCalls = << >>
            /\ job.pc = "settled" => job.outcome.result \in cached.lookup.artifact
        /\ cached.lookup.stale => job.modelCalls # << >>

-----------------------------------------------------------------------------
(* Properties of the tracker's stored state *)

\* the stored timestamps, as <<tool, position>>
StoredTimestamps == {<<t, i>> \in Tools \X (1..Len(history)) :
                        t \in DOMAIN calls /\ i <= Len(calls[t])}

\* C33: no tracked tool has an empty list of timestamps, so getStats counts
\* as tools exactly the tools with a stored call, and as calls the stored
\* timestamps.
C33_NoEmptyWindowStored ==
    /\ \A t \in DOMAIN calls : Len(calls[t]) >= 1
    /\ lastCall.op = "getStats" =>
        /\ lastCall.toolCount =
                Cardinality({t \in Tools : MapGetOrEmpty(calls, t) # << >>})
        /\ lastCall.totalCalls = Cardinality(StoredTimestamps)

\* calls recorded, the window elapsed, a query removed the entry (no cleanup,
\* no reset), and getStats reports no tool
C33_Witness ==
    /\ lastCall.op = "getStats"
    /\ lastCall.toolCount = 0
    /\ history # << >>
    /\ cleanupWindows = {}

\* the timestamps of toolName stored in m that are newer than cutoff
OwnRecent(m, toolName, cutoff) ==
    Cardinality({i \in 1..Len(MapGetOrEmpty(m, toolName)) :
                    MapGetOrEmpty(m, toolName)[i] > cutoff})

\* C34: recordCall and getEscalationMultiplier for one tool leave the entry
\* of every other tool as it was, and the multiplier returned is the linear
\* value of the tool's own stored timestamps inside the window.
C34_TrackingIsPerTool ==
    [][lastCall'.op \in {"recordCall", "getEscalationMultiplier"} =>
        /\ \A b \in Tools \ {lastCall'.tool} :
            /\ b \in DOMAIN calls' <=> b \in DOMAIN calls
            /\ MapGetOrEmpty(calls', b) = MapGetOrEmpty(calls, b)
        /\ lastCall'.op = "getEscalationMultiplier" =>
            lastCall'.value = Linear(lastCall'.tokenMultiplier,
                                     OwnRecent(calls, lastCall'.tool, lastCall'.cutoff))]_vars

\* tool_a, tool_b, tool_a, tool_b one second apart or less: 2 for both
C34_Witness ==
    /\ Len(history) = 4
    /\ \A i \in 1..4 : history[i].tool = (IF i % 2 = 1 THEN "tool_a" ELSE "tool_b")
    /\ history[1].ts < history[3].ts
    /\ lastCall.op = "getEscalationMultiplier"
    /\ lastCall.tool = "tool_b"
    /\ lastCall.value = 2
    /\ Len(MapGetOrEmpty(calls, "tool_a")) = 2
    /\ multiplierOf(calls, "tool_a", [enabled |-> TRUE, windowSeconds |-> lastCall.windowSeconds,
                                      tokenMultiplier |-> lastCall.tokenMultiplier], now) = 2

\* C35: after cleanup(maxWindowSeconds) every tool holds exactly its
\* previously stored timestamps newer than now - maxWindowSeconds * 1000, in
\* their order, and a tool left with none is removed.
C35_CleanupKeepsExactlyTheRecent ==
    [][lastCall'.op = "cleanup" =>
        \A t \in Tools :
            LET kept == SelectSeq(MapGetOrEmpty(calls, t),
                            LAMBDA ts : ts > now - lastCall'.windowSeconds * MsPerSecond)
            IN  /\ MapGetOrEmpty(calls', t) = kept
                /\ t \in DOMAIN calls' <=> kept # << >>]_vars

\* a cleanup after which one tool is gone and another is trimmed
C35_Witness ==
    /\ lastCall.op = "cleanup"
    /\ \E a, b \in Tools :
        /\ a \notin DOMAIN calls /\ a \in DOMAIN callsNC
        /\ b \in DOMAIN calls /\ b \in DOMAIN callsNC
        /\ Len(calls[b]) < Len(callsNC[b])

\* C36: with escalation disabled in the policy getEscalationMultiplier
\* returns 1 and leaves the stored timestamps of every tool as they were.
C36_DisabledLeavesTrackerAlone ==
    [][(lastCall'.op = "getEscalationMultiplier" /\ ~lastCall'.enabled) =>
        /\ lastCall'.value = 1
        /\ calls' = calls]_vars

\* a disabled query for a tool with two stored calls, one as old as the window
C36_Witness ==
    /\ lastCall.op = "getEscalationMultiplier"
    /\ ~lastCall.enabled
    /\ lastCall.value = 1
    /\ Len(MapGetOrEmpty(calls, lastCall.tool)) >= 2
    /\ \E i \in 1..Len(calls[lastCall.tool]) : calls[lastCall.tool][i] <= lastCall.cutoff
    /\ \E i \in 1..Len(calls[lastCall.tool]) : calls[lastCall.tool][i] > lastCall.cutoff

\* C37: right after reset getStats reports 0 tools and 0 calls, every
\* getEscalationMultiplier returns 1, and a call recorded then is the only
\* one stored.
C37_ResetClearsAllState ==
    [][lastCall.op = "reset" =>
        /\ lastCall'.op = "getStats" => lastCall'.toolCount = 0 /\ lastCall'.totalCalls = 0
        /\ lastCall'.op = "getEscalationMultiplier" => lastCall'.value = 1
        /\ lastCall'.op = "recordCall" =>
            /\ DOMAIN calls' = {lastCall'.tool}
            /\ calls'[lastCall'.tool] = << now >>]_vars

\* a reset of a tracker that held calls of two tools
C37_Witness ==
    /\ lastCall.op = "reset"
    /\ lastCall.toolCount = 2
    /\ lastCall.totalCalls >= 2
    /\ calls = EmptyMap

-----------------------------------------------------------------------------
(* Properties of Router.callTool's hidden check, isolation and masking gate *)

OwnForwardable(c) ==
    LET own == inflight[c].args
        overrides == getParameterOverrides(inflight[c].name)
    IN  {<<k, own[k]>> : k \in DOMAIN own}
            \cup {<<k, maskToolArgs(own)[k]>> : k \in DOMAIN own}
            \cup {<<k, overrides[k]>> : k \in DOMAIN overrides}

\* C32: with several invocations in flight, each forwards only its own
\* arguments, and returns its own upstream result together with the goal and
\* bypass taken from its own arguments.
C32_ConcurrentCallsAreIsolated ==
    \A c \in CallIds :
        (\E d \in CallIds \ {c} : Started(d)) =>
            /\ \A i \in 1..Len(inflight[c].upstreamCalls) :
                  \A k \in DOMAIN inflight[c].upstreamCalls[i].args :
                      <<k, inflight[c].upstreamCalls[i].args[k]>> \in OwnForwardable(c)
            /\ inflight[c].pc = "returned" =>
                  LET returned == inflight[c].outcome.result
                  IN  /\ {"result", "goal", "bypass"} \subseteq DOMAIN returned
                      /\ inflight[c].settled.kind = "resolved" =>
                             returned.result = inflight[c].settled.result
                      /\ returned.goal = ExtractedControl(inflight[c].args).goal
                      /\ returned.bypass = ExtractedControl(inflight[c].args).bypass

\* C38: the goal callTool returns is the value of the goal field when that
\* is a string and undefined otherwise; the bypass it returns is true only
\* when the bypass field is the boolean true.
C38_InvalidControlFieldsAreAbsent ==
    \A c \in CallIds :
        inflight[c].pc = "returned" =>
            LET args == inflight[c].args
                returned == inflight[c].outcome.result
                goalIsString == GoalField \in DOMAIN args /\ args[GoalField].type = "string"
                bypassIsTrue == BypassField \in DOMAIN args /\ args[BypassField] = Bool(TRUE)
            IN  /\ "goal" \in DOMAIN returned
                /\ "bypass" \in DOMAIN returned
                /\ goalIsString => returned.goal = args[GoalField]
                /\ ~goalIsString => returned.goal = Undefined
                /\ returned.bypass = bypassIsTrue

\* C39: with no masker attached, or a masker that is not enabled,
\* maskToolArgs is not invoked, the upstream receives the arguments as they
\* are after the overrides, and no restoration map is returned.
C39_MaskingOnlyByEnabledMasker ==
    masker \in {"none", "disabled"} =>
        \A c \in CallIds :
            /\ inflight[c].maskCalls = <<>>
            /\ \A i \in 1..Len(inflight[c].upstreamCalls) :
                  inflight[c].upstreamCalls[i].args =
                      WithOverrides(WithoutControlFields(inflight[c].args),
                                    getParameterOverrides(inflight[c].name))
            /\ inflight[c].pc = "returned" =>
                  "restorationMap" \notin DOMAIN inflight[c].outcome.result

-----------------------------------------------------------------------------
(* Properties of compressToolResult when nothing is compressed *)

\* C40: compressToolResult returns the result it was given, every part as it
\* was, when the result has no text part, when the joined text has at most
\* tokenThreshold tokens, and when compress reports wasCompressed = false; in
\* the first two cases the compression model is not invoked.
C40_IdentityWhenNothingCompressed ==
    Settled("compressToolResult") =>
        LET content == job.input.content
            noText == textContents(content) = <<>>
            tokenCount == countTokens(combinedText(content))
            given == [kind |-> "return", result |-> job.input]
        IN  /\ noText => (job.outcome = given /\ job.modelCalls = <<>>)
            /\ (~noText /\ ~tokenCount.threw
                    /\ tokenCount.value <= compressionConfig.tokenThreshold) =>
                  (job.outcome = given /\ job.modelCalls = <<>>)
            /\ (job.slots # <<>> /\ job.slots[1].state = "returned"
                    /\ ~job.slots[1].result.wasCompressed) =>
                  job.outcome = given

\* two text parts around an image, joined to exactly tokenThreshold tokens,
\* returned as given without a call of the model
C40_Witness ==
    /\ Settled("compressToolResult")
    /\ job.input.content = <<TextPart(<<"a">>), ImagePart, TextPart(<<"a">>)>>
    /\ compressionConfig.tokenThreshold = 3
    /\ Len(combinedText(job.input.content)) = 3
    /\ job.modelCalls = <<>>
    /\ job.outcome = [kind |-> "return", result |-> job.input]

=============================================================================
